---- MODULE Spec2Model ----
(***************************************************************************)
(* Sharding internals: distributed locks on config.locks/config.lockpings, *)
(* the live chunk migration protocol, orphaned range deletion and the      *)
(* shard versioning protocol.                                              *)
(***************************************************************************)
EXTENDS Integers, Sequences, FiniteSets, TLC

\* ------------------------------------------------------------------------
\* Bounds and program constants
\* ------------------------------------------------------------------------

\* Minutes without a ping after which a process's locks may be overtaken.
LockExpiration == 15

\* Last minute of the config server's clock that the model explores.
MaxTime == 16

\* Number of protected writes the model lets the config server accept for a
\* resource.
MaxProtectedWrites == 2

Processes == {"p1", "p2"}
Resources == {"db1", "db1.coll"}

\* Number of moveChunk operations the model lets start.
MaxMigrations == 2

\* Number of client writes the model lets the shards accept.
MaxWrites == 2

\* Number of queries that may pin one chunk's metadata on a shard at a time.
MaxReaders == 1

\* The number of stale version responses after which a request gives up.
MaxStaleRetries == 3

\* Bound on the placement changes of a run: one more than a request survives.
MaxPlacementChanges == MaxStaleRetries + 1

\* The highest major and minor versions and the longest sequence of
\* operations on one chunk that the model explores.
MaxMajor == 4
MaxMinor == 2
MaxOps == 2

Shards == {"shardA", "shardB"}
\* Two sharded collections of one chunk each.
Chunks == {"c1", "c2"}
Keys == {1, 2}
Values == {"x", "y"}
NoDoc == "nodoc"
Callers == {"u1", "u2"}
MigIds == 1..MaxMigrations
Routers == {"router1", "router2"}
Nodes == Routers \cup Shards

VARIABLES
    locks,        \* config.locks: set of lock documents [resourceName, ownerId]
    lockpings,    \* config.lockpings: process id -> minute of its last ping
    now,          \* the config server's clock, in minutes
    lockView,     \* what each process believes about each resource
    protected,    \* resource -> the last protected write the config server accepted
    owner,        \* config.chunks: chunk -> shard that owns it
    chunkVersion, \* config.chunks: chunk -> chunk version
    registry,     \* ActiveMigrationsRegistry of each shard
    migs,         \* migration id -> the moveChunk operation and its step
    cloneLocs,    \* migration id -> keys still to be sent by _migrateClone
    modBuffer,    \* migration id -> modifications queued on the donor
    docs,         \* shard -> chunk -> key -> document stored there
    rangeDeletions,         \* config.rangeDeletions of each shard
    migrationCoordinators,  \* config.migrationCoordinators of each shard
    deleter,      \* the range deleter thread of each shard
    pins,         \* shard -> chunk -> queries holding the chunk's metadata
    handle,       \* caller -> migration it waits for (0: none)
    result,       \* caller -> outcome of its last moveChunk
    nWrites,      \* client writes accepted so far
    history,      \* what has been observed of each migration
    databases,    \* config.databases: the database's primary shard and version
    cache,        \* node -> resource -> version the node has cached
    refresh,      \* node -> the refreshes in flight on the node
    req,          \* router -> the request it is sending, and its position
    nChanges,     \* placement changes committed so far
    chunkVer,     \* the version of the chunk that operations are applied to
    shardVer,     \* the shard version of the shard holding that chunk
    collVer,      \* the collection version of the chunk's collection
    start,        \* the version the chunk started with
    ops,          \* the operations applied to the chunk, in order
    compared,     \* the last two versions compared, and the result
    testPc,       \* the statement the initial sync test is at
    rsConfig,     \* the nodes in the replica set configuration
    members,      \* node -> its state and its own optimes
    primaryView,  \* node -> what the primary knows of the node's optimes
    failpoints,   \* the failpoints that are on, on the node that was added
    initialSync,  \* the initial sync of the node that was added
    numUpdatePosition,  \* replSetUpdatePosition commands the added node sent
    pendingWrite, \* the write whose write concern the primary is waiting for
    writeRes      \* the results of the test's writes with a write concern

lockVars == <<locks, lockpings, now, lockView, protected>>

configVars == <<owner, chunkVersion>>

migVars == <<registry, migs, cloneLocs, modBuffer, migrationCoordinators, handle, result>>

dataVars == <<docs, nWrites>>

cleanupVars == <<rangeDeletions, deleter, pins>>

shardingVars == <<configVars, migVars, dataVars, cleanupVars, history>>

routingVars == <<databases, cache, refresh, req, nChanges>>

\* The versions a version transition is applied to, and what was applied.
versionVars == <<chunkVer, shardVer, collVer, start, ops, compared>>

\* The replica set of the initial sync test and the test's position.
replVars == <<testPc, rsConfig, members, primaryView, failpoints, initialSync,
              numUpdatePosition, pendingWrite, writeRes>>

otherVars == <<versionVars, replVars>>

vars == <<lockVars, shardingVars, routingVars, otherVars>>

\* ------------------------------------------------------------------------
\* Distributed locks
\* ------------------------------------------------------------------------

LockDocument(r, o) == [resourceName |-> r, ownerId |-> o]

\* The lock documents stored for resource r.
LockDocsOf(r) == {d \in locks : d.resourceName = r}

\* Minutes since process o last pinged its config.lockpings document.
PingAge(o) == now - lockpings[o]

\* "If the process's document is not pinged for 15 minutes or more, the
\* process's distributed locks are allowed to be overtaken."
IsLockExpired(o) == PingAge(o) >= LockExpiration

\* The processes other than o that own a lock document for r.
OtherHolders(r, o) == {d.ownerId : d \in LockDocsOf(r)} \ {o}

LockIsFree_NoCheck(r) == TRUE

\* The precondition of the plain acquiring write: no lock document for r.
LockIsFree(r) == LockDocsOf(r) = {}

CanOvertake_OffByOne(r, o) == \A h \in OtherHolders(r, o) : PingAge(h) >= LockExpiration - 1

\* The precondition of the overtaking write: every holder of r has expired.
CanOvertake(r, o) == \A h \in OtherHolders(r, o) : IsLockExpired(h)

\* acquire(resourceName, ownerId): a conditional majority write to config.locks.
\* It grabs a free lock, overtakes an expired holder, and otherwise fails
\* with LockBusy (no retry inside the primitive).
Acquire(r, o) ==
    /\ lockView[o][r] # "held"
    /\ IF LockIsFree(r)
         THEN /\ locks' = locks \cup {LockDocument(r, o)}
              /\ lockView' = [lockView EXCEPT ![o][r] = "held"]
         ELSE IF CanOvertake(r, o)
         THEN /\ locks' = (locks \ LockDocsOf(r)) \cup {LockDocument(r, o)}
              /\ lockView' = [lockView EXCEPT ![o][r] = "held"]
         ELSE /\ locks' = locks
              /\ lockView' = [lockView EXCEPT ![o][r] = "LockBusy"]
    /\ UNCHANGED <<lockpings, now, protected, shardingVars, routingVars, otherVars>>

\* release(handle): removes the lock document if it is still the caller's;
\* an overtaken holder only drops its handle.
Release(r, o) ==
    /\ lockView[o][r] = "held"
    /\ locks' = locks \ {LockDocument(r, o)}
    /\ lockView' = [lockView EXCEPT ![o][r] = "none"]
    /\ UNCHANGED <<lockpings, now, protected, shardingVars, routingVars, otherVars>>

\* Nothing accepted yet.
NoWrite == [writer |-> "none", docs |-> {}, seq |-> 0]

LeaseValid_TrustHolder(r, o) == TRUE

\* The lease token o got from acquire is still the lock's owner token: the
\* lock document of r names o.
LeaseValid(r, o) == LockDocument(r, o) \in locks

\* A process that believes it holds the lock on r sends a write protected by
\* the lock. The config server accepts it only with a valid lease token; a
\* process that was overtaken learns so from the rejection.
ProtectedWrite(r, o) ==
    /\ lockView[o][r] = "held"
    /\ IF LeaseValid(r, o)
          THEN /\ protected[r].seq < MaxProtectedWrites
               /\ protected' = [protected EXCEPT ![r] =
                                   [writer |-> o, docs |-> LockDocsOf(r), seq |-> @.seq + 1]]
               /\ UNCHANGED lockView
          ELSE /\ lockView' = [lockView EXCEPT ![o][r] = "overtaken"]
               /\ UNCHANGED protected
    /\ UNCHANGED <<locks, lockpings, now, shardingVars, routingVars, otherVars>>

\* The periodic ping of a live process: updates its config.lockpings document.
Ping(o) ==
    /\ lockpings[o] # now
    /\ lockpings' = [lockpings EXCEPT ![o] = now]
    /\ UNCHANGED <<locks, now, lockView, protected, shardingVars, routingVars, otherVars>>

\* One minute passes on the config server.
Tick ==
    /\ now < MaxTime
    /\ now' = now + 1
    /\ UNCHANGED <<locks, lockpings, lockView, protected, shardingVars, routingVars, otherVars>>

\* ------------------------------------------------------------------------
\* Shard versioning
\* ------------------------------------------------------------------------

Collections == {"db.coll1", "db.coll2"}

\* The collection each chunk belongs to.
CollOf == [c \in Chunks |-> IF c = "c1" THEN "db.coll1" ELSE "db.coll2"]

ChunksOf(coll) == {c \in Chunks : CollOf[c] = coll}

EpochOf == [coll \in Collections |-> IF coll = "db.coll1" THEN "E1" ELSE "E2"]

ChunkVersion(major, minor, epoch) == [major |-> major, minor |-> minor, epoch |-> epoch]

\* a is an older version than b of the same epoch: major first, then minor.
VersionOlder(a, b) ==
    /\ a.epoch = b.epoch
    /\ \/ a.major < b.major
       \/ a.major = b.major /\ a.minor < b.minor

\* The highest of a non-empty set of chunk versions of one epoch.
HighestVersion(vs) == CHOOSE v \in vs : \A w \in vs : ~VersionOlder(v, w)

\* Collection version: the highest chunk version seen across all shards.
CollectionVersion(coll) == HighestVersion({chunkVersion[c] : c \in ChunksOf(coll)})

\* Shard version: the highest chunk version seen on a particular shard
\* (the unsharded convention 0|0 when the shard owns no chunk).
ShardVersion(s, coll) ==
    LET owned == {chunkVersion[c] : c \in {x \in ChunksOf(coll) : owner[x] = s}}
    IN  IF owned = {} THEN ChunkVersion(0, 0, EpochOf[coll]) ELSE HighestVersion(owned)

MoveChunkVersion_NoBump(v) == v

MoveChunkVersion_ResetMinor(v) == [v EXCEPT !.major = @ + 1, !.minor = 0]

MoveChunkVersion_BumpMinor(v) == [v EXCEPT !.major = @ + 1, !.minor = @ + 1]

\* Moving a chunk increments the chunk's major version.
MoveChunkVersion(v) == [v EXCEPT !.major = @ + 1]

\* The epochs of the collections.
Epochs == {EpochOf[coll] : coll \in Collections}

\* The chunk versions the model explores.
Versions ==
    {ChunkVersion(a, b, e) : a \in 0..MaxMajor, b \in 0..MaxMinor, e \in Epochs}

SplitChunkVersion_NoMajor(v, sv, cv) == [v EXCEPT !.minor = @ + 1]

SplitChunkVersion_KeepMinor(v, sv, cv) ==
    [v EXCEPT !.major = IF sv = cv THEN @ + 1 ELSE @]

\* Splitting a chunk: if the shard version is equal to the collection
\* version, increases the major version; always increments the minor version.
SplitChunkVersion(v, sv, cv) ==
    [v EXCEPT !.major = IF sv = cv THEN @ + 1 ELSE @, !.minor = @ + 1]

\* Merging a chunk: sets the chunk's major version to the collection version
\* plus one and its minor version to zero.
MergeChunkVersion(v, cv) == [v EXCEPT !.major = cv.major + 1, !.minor = 0]

Compare_IgnoreEpoch(a, b) ==
    IF a.major < b.major \/ (a.major = b.major /\ a.minor < b.minor) THEN "older"
    ELSE IF b.major < a.major \/ (b.major = a.major /\ b.minor < a.minor) THEN "newer"
    ELSE "equal"

\* How version a stands to version b: versions of one epoch are ordered by
\* major version, then minor version; versions of different epochs are not
\* ordered.
Compare(a, b) ==
    IF a.epoch # b.epoch THEN "incomparable"
    ELSE IF VersionOlder(a, b) THEN "older"
    ELSE IF VersionOlder(b, a) THEN "newer"
    ELSE "equal"

\* The shard versions and collection versions that can go with chunk version
\* v: the shard version is the highest on the shard, the collection version
\* the highest of all.
Contexts(v) ==
    {ctx \in Versions \X Versions :
        /\ ctx[1].epoch = v.epoch /\ ctx[2].epoch = v.epoch
        /\ ~VersionOlder(ctx[1], v)
        /\ ~VersionOlder(ctx[2], ctx[1])}

\* Operation op gives the chunk version v; the other chunks of the shard and
\* of the collection may have changed in any way meanwhile.
Applied(op, v) ==
    /\ Len(ops) < MaxOps
    /\ v \in Versions
    /\ chunkVer' = v
    /\ ops' = Append(ops, op)
    /\ \E ctx \in Contexts(v) : shardVer' = ctx[1] /\ collVer' = ctx[2]
    /\ UNCHANGED <<start, compared>>
    /\ UNCHANGED <<lockVars, shardingVars, routingVars, replVars>>

MoveChunk == Applied("move", MoveChunkVersion(chunkVer))

SplitChunk == Applied("split", SplitChunkVersion(chunkVer, shardVer, collVer))

MergeChunks == Applied("merge", MergeChunkVersion(chunkVer, collVer))

\* A node compares two versions.
CompareVersions(a, b) ==
    /\ compared' = [a |-> a, b |-> b, result |-> Compare(a, b)]
    /\ UNCHANGED <<chunkVer, shardVer, collVer, start, ops>>
    /\ UNCHANGED <<lockVars, shardingVars, routingVars, replVars>>

\* ------------------------------------------------------------------------
\* The live migration protocol
\* ------------------------------------------------------------------------

NoMig == [chunk |-> "-", donor |-> "-", recipient |-> "-", state |-> "None"]

Terminal == {"Done", "Aborted"}

\* The moveChunk operations that have started and not finished.
InFlight == {m \in MigIds : migs[m].state \notin {"None"} \cup Terminal}

\* The steps in which the recipient is copying and the donor queues writes.
QueueingStates == {"Cloning", "TransferringMods", "WaitingSteadyState"}

CriticalStates_UntilAck == {"CriticalSection"}

\* The steps of the critical section, in which donor writes are suspended.
CriticalStates == {"CriticalSection", "RecipientCommit", "ConfigCommit"}

Registration(m, c, kind) == [mig |-> m, chunk |-> c, kind |-> kind]

Joinable_Never(s, c) == {}

\* The registrations of shard s that a moveChunk of chunk c can join.
Joinable(s, c) == {g \in registry[s] : g.kind = "donate" /\ g.chunk = c}

RegistryIsFree_NoCheck(s) == TRUE

\* The shard has no incoming or outgoing migration in flight.
RegistryIsFree(s) == registry[s] = {}

CoordinatorDoc(m) ==
    [id |-> m, chunk |-> migs[m].chunk, recipient |-> migs[m].recipient,
     preMigrationChunkVersion |-> chunkVersion[migs[m].chunk],
     decision |-> "undecided"]

\* The coordinator documents of migration m on its donor.
CoordinatorDocsOf(m) == {d \in migrationCoordinators[migs[m].donor] : d.id = m}

RangeDeletionTask_Ready(m, pending) ==
    [chunk |-> migs[m].chunk, mig |-> m, pending |-> FALSE]

RangeDeletionTask(m, pending) == [chunk |-> migs[m].chunk, mig |-> m, pending |-> pending]

OverlappingTasks_None(s, c) == {}

\* The range deletion documents of shard s that overlap chunk c.
OverlappingTasks(s, c) == {t \in rangeDeletions[s] : t.chunk = c}

\* The commit on the config server has moved migration m's chunk.
CommitObserved(m) ==
    \E d \in CoordinatorDocsOf(m) : chunkVersion[d.chunk] # d.preMigrationChunkVersion

\* The donor's moveChunk of migration m is running: it is still registered.
DonorRunning(m) == \E g \in registry[migs[m].donor] : g.mig = m /\ g.kind = "donate"

\* The recipient's side of migration m is running: it is still registered.
RecipientRunning(m) == \E g \in registry[migs[m].recipient] : g.mig = m /\ g.kind = "receive"

\* What a caller knows of its last moveChunk: the chunk it asked to move, the
\* migration it was attached to and how that ended.
CallResult(c, m, outcome) == [chunk |-> c, mig |-> m, outcome |-> outcome]

\* Step 1, start the migration: register the chunk in the donor's
\* ActiveMigrationsRegistry. An in-flight migration of the same chunk is
\* joined; any other in-flight migration makes the registration fail.
BeginMigration(u, c, to) ==
    LET d == owner[c]
        free == {m \in MigIds : migs[m].state = "None"}
    IN  /\ handle[u] = 0
        /\ to # d
        /\ IF Joinable(d, c) # {}
             THEN /\ \E g \in Joinable(d, c) :
                        /\ handle' = [handle EXCEPT ![u] = g.mig]
                        /\ result' = [result EXCEPT ![u] = CallResult(c, g.mig, "pending")]
                  /\ UNCHANGED <<registry, migs>>
             ELSE IF ~RegistryIsFree(d)
             THEN /\ result' = [result EXCEPT ![u] =
                        CallResult(c, 0, "ConflictingMigrationInProgress")]
                  /\ UNCHANGED <<registry, migs, handle>>
             ELSE /\ free # {}
                  /\ LET m == CHOOSE x \in free : \A y \in free : x <= y
                     IN  /\ migs' = [migs EXCEPT ![m] =
                                [chunk |-> c, donor |-> d, recipient |-> to, state |-> "Start"]]
                         /\ registry' = [registry EXCEPT ![d] = @ \cup {Registration(m, c, "donate")}]
                         /\ handle' = [handle EXCEPT ![u] = m]
                         /\ result' = [result EXCEPT ![u] = CallResult(c, m, "pending")]
        /\ UNCHANGED <<cloneLocs, modBuffer, migrationCoordinators>>
        /\ UNCHANGED <<lockVars, routingVars, otherVars, configVars, dataVars, cleanupVars, history>>

\* The donor persists the migration coordinator document and its own range
\* deletion document (pending), then sends _recvChunkStart.
DonorStartClone(m) ==
    LET d == migs[m].donor
    IN  /\ migs[m].state = "Start"
        /\ DonorRunning(m)
        /\ CoordinatorDocsOf(m) = {}
        /\ migrationCoordinators' = [migrationCoordinators EXCEPT ![d] = @ \cup {CoordinatorDoc(m)}]
        /\ rangeDeletions' = [rangeDeletions EXCEPT ![d] = @ \cup {RangeDeletionTask(m, TRUE)}]
        /\ UNCHANGED <<registry, migs, cloneLocs, modBuffer, handle, result>>
        /\ UNCHANGED <<lockVars, routingVars, otherVars, configVars, dataVars, deleter, pins, history>>

\* Step 2, _recvChunkStart on the recipient: it waits until no overlapping
\* range deletion document is left, writes its own range deletion document
\* (pending) and starts cloning.
RecvChunkStart(m) ==
    LET d == migs[m].donor
        to == migs[m].recipient
        c == migs[m].chunk
    IN  /\ migs[m].state = "Start"
        /\ DonorRunning(m)
        /\ CoordinatorDocsOf(m) # {}
        /\ RegistryIsFree(to)
        /\ OverlappingTasks(to, c) = {}
        /\ registry' = [registry EXCEPT ![to] = @ \cup {Registration(m, c, "receive")}]
        /\ rangeDeletions' = [rangeDeletions EXCEPT ![to] = @ \cup {RangeDeletionTask(m, TRUE)}]
        /\ cloneLocs' = [cloneLocs EXCEPT ![m] = {k \in Keys : docs[d][c][k] # NoDoc}]
        /\ migs' = [migs EXCEPT ![m].state = "Cloning"]
        /\ UNCHANGED <<modBuffer, migrationCoordinators, handle, result>>
        /\ UNCHANGED <<lockVars, routingVars, otherVars, configVars, dataVars, deleter, pins, history>>

\* Documents sent by one _migrateClone.
CloneBatchSize == 1

\* The next keys that _migrateClone sends: the lowest of those left.
CloneBatch(m) ==
    {k \in cloneLocs[m] : Cardinality({j \in cloneLocs[m] : j < k}) < CloneBatchSize}

\* _migrateClone: the recipient fetches the next batch and inserts the
\* documents as they are on the donor now; an empty batch ends the cloning.
MigrateClone(m) ==
    LET d == migs[m].donor
        to == migs[m].recipient
        c == migs[m].chunk
        batch == CloneBatch(m)
    IN  /\ migs[m].state = "Cloning"
        /\ DonorRunning(m) /\ RecipientRunning(m)
        /\ IF batch = {}
             THEN /\ migs' = [migs EXCEPT ![m].state = "TransferringMods"]
                  /\ UNCHANGED <<docs, cloneLocs>>
             ELSE /\ docs' = [docs EXCEPT ![to][c] =
                        [k \in Keys |-> IF k \in batch /\ docs[d][c][k] # NoDoc
                                          THEN docs[d][c][k] ELSE @[k]]]
                  /\ cloneLocs' = [cloneLocs EXCEPT ![m] = @ \ batch]
                  /\ UNCHANGED migs
        /\ UNCHANGED <<registry, modBuffer, migrationCoordinators, handle, result>>
        /\ UNCHANGED <<lockVars, routingVars, otherVars, configVars, nWrites, cleanupVars, history>>

\* A queued modification: an insert, update or delete of one document.
Mod(op, k, v) == [op |-> op, key |-> k, val |-> v]

\* The documents of a chunk after the recipient applied modification x.
ApplyMod(ds, x) == [ds EXCEPT ![x.key] = IF x.op = "d" THEN NoDoc ELSE x.val]

\* The documents of a chunk after applying a sequence of modifications in order.
RECURSIVE ApplyMods(_, _)
ApplyMods(ds, xs) == IF xs = <<>> THEN ds ELSE ApplyMods(ApplyMod(ds, Head(xs)), Tail(xs))

\* Modifications sent by one _transferMods.
ModBatchSize == 1

TakeMods_Lossy(xs) == <<>>

\* The modifications that one _transferMods hands over: the oldest queued.
TakeMods(xs) == SubSeq(xs, 1, IF Len(xs) < ModBatchSize THEN Len(xs) ELSE ModBatchSize)

\* Step 3, _transferMods: the recipient pulls the oldest queued modifications
\* and applies them in order; once a pull comes back empty it is "steady".
TransferMods(m) ==
    LET to == migs[m].recipient
        c == migs[m].chunk
        taken == TakeMods(modBuffer[m])
    IN  /\ migs[m].state \in {"TransferringMods", "WaitingSteadyState"}
        /\ DonorRunning(m) /\ RecipientRunning(m)
        /\ IF modBuffer[m] = <<>>
             THEN /\ migs[m].state = "TransferringMods"
                  /\ migs' = [migs EXCEPT ![m].state = "WaitingSteadyState"]
                  /\ UNCHANGED <<docs, modBuffer, history>>
             ELSE /\ docs' = [docs EXCEPT ![to][c] = ApplyMods(@, taken)]
                  /\ modBuffer' = [modBuffer EXCEPT ![m] = SubSeq(@, ModBatchSize + 1, Len(@))]
                  /\ history' = [history EXCEPT !.applied[m] = @ + Len(taken)]
                  /\ UNCHANGED migs
        /\ UNCHANGED <<registry, cloneLocs, migrationCoordinators, handle, result>>
        /\ UNCHANGED <<lockVars, routingVars, otherVars, configVars, nWrites, cleanupVars>>

EnterCriticalSection_NoWait(m) ==
    /\ migs[m].state \in {"TransferringMods", "WaitingSteadyState"}
    /\ DonorRunning(m) /\ RecipientRunning(m)
    /\ migs' = [migs EXCEPT ![m].state = "CriticalSection"]
    /\ history' = [history EXCEPT !.docsAtSuspend[m] = docs[migs[m].donor][migs[m].chunk],
                                   !.critical = @ \cup {m}]
    /\ UNCHANGED <<registry, cloneLocs, modBuffer, migrationCoordinators, handle, result>>
    /\ UNCHANGED <<lockVars, routingVars, otherVars, configVars, dataVars, cleanupVars>>

\* Steps 4 and 5: the donor's poll of _recvChunkStatus returns "steady" and
\* the donor enters the critical section, which suspends writes to the chunk.
EnterCriticalSection(m) ==
    /\ migs[m].state = "WaitingSteadyState"
    /\ DonorRunning(m) /\ RecipientRunning(m)
    /\ migs' = [migs EXCEPT ![m].state = "CriticalSection"]
    /\ history' = [history EXCEPT !.docsAtSuspend[m] = docs[migs[m].donor][migs[m].chunk],
                                   !.critical = @ \cup {m}]
    /\ UNCHANGED <<registry, cloneLocs, modBuffer, migrationCoordinators, handle, result>>
    /\ UNCHANGED <<lockVars, routingVars, otherVars, configVars, dataVars, cleanupVars>>

\* Step 6, _recvChunkCommit: the recipient fetches every modification still
\* queued with _transferMods and returns its status to the donor.
RecvChunkCommit(m) ==
    LET to == migs[m].recipient
        c == migs[m].chunk
    IN  /\ migs[m].state = "CriticalSection"
        /\ DonorRunning(m) /\ RecipientRunning(m)
        /\ docs' = [docs EXCEPT ![to][c] = ApplyMods(@, modBuffer[m])]
        /\ modBuffer' = [modBuffer EXCEPT ![m] = <<>>]
        /\ history' = [history EXCEPT !.applied[m] = @ + Len(modBuffer[m])]
        /\ migs' = [migs EXCEPT ![m].state = "RecipientCommit"]
        /\ UNCHANGED <<registry, cloneLocs, migrationCoordinators, handle, result>>
        /\ UNCHANGED <<lockVars, routingVars, otherVars, configVars, nWrites, cleanupVars>>

\* Step 7, first half: the donor suspends reads too and sends
\* _configsvrCommitChunkMigration.
SendCommit(m) ==
    /\ migs[m].state = "RecipientCommit"
    /\ DonorRunning(m)
    /\ migs' = [migs EXCEPT ![m].state = "ConfigCommit"]
    /\ UNCHANGED <<registry, cloneLocs, modBuffer, migrationCoordinators, handle, result>>
    /\ UNCHANGED <<lockVars, routingVars, otherVars, configVars, dataVars, cleanupVars, history>>

\* Step 7, second half: the config server commits the migration; the chunk
\* now belongs to the recipient, with its major version incremented.
CommitChunkMigration(m) ==
    LET c == migs[m].chunk
    IN  /\ migs[m].state = "ConfigCommit"
        /\ DonorRunning(m)
        /\ ~CommitObserved(m)
        /\ owner' = [owner EXCEPT ![c] = migs[m].recipient]
        /\ chunkVersion' = [chunkVersion EXCEPT ![c] = MoveChunkVersion(@)]
        /\ history' = [history EXCEPT !.committed = @ \cup {m}]
        /\ UNCHANGED <<lockVars, routingVars, otherVars, migVars, dataVars, cleanupVars>>

\* The range deletion documents of shard s without those of migration m.
WithoutTask(s, m) == {t \in rangeDeletions[s] : t.mig # m}

\* The range deletion documents of shard s with migration m's marked ready.
WithReadyTask(s, m) ==
    {IF t.mig = m THEN [t EXCEPT !.pending = FALSE] ELSE t : t \in rangeDeletions[s]}

CommitSequence_Swapped(m) ==
    [s \in Shards |->
        IF s = migs[m].donor THEN WithoutTask(s, m)
        ELSE IF s = migs[m].recipient THEN WithReadyTask(s, m)
        ELSE rangeDeletions[s]]

\* The commit sequence: delete the range deletion document on the recipient,
\* mark the donor's ready.
CommitSequence(m) ==
    [s \in Shards |->
        IF s = migs[m].recipient THEN WithoutTask(s, m)
        ELSE IF s = migs[m].donor THEN WithReadyTask(s, m)
        ELSE rangeDeletions[s]]

AbortSequence_Swapped(m) ==
    [s \in Shards |->
        IF s = migs[m].recipient THEN WithoutTask(s, m)
        ELSE IF s = migs[m].donor THEN WithReadyTask(s, m)
        ELSE rangeDeletions[s]]

\* The abort sequence: delete the range deletion document on the donor, mark
\* the recipient's ready.
AbortSequence(m) ==
    [s \in Shards |->
        IF s = migs[m].donor THEN WithoutTask(s, m)
        ELSE IF s = migs[m].recipient THEN WithReadyTask(s, m)
        ELSE rangeDeletions[s]]

Unregistered_Kept(m) == registry

\* The registries once migration m has left them.
Unregistered(m) == [s \in Shards |-> {g \in registry[s] : g.mig # m}]

\* The coordinator collections once migration m's document is deleted.
CoordinatorsWithout(m) == [s \in Shards |-> {d \in migrationCoordinators[s] : d.id # m}]

\* What is recorded as the donor's documents of a chunk while no migration
\* has suspended writes to it.
Unset == [k \in Keys |-> "unset"]

\* The observations kept of a migration in flight are dropped when it ends.
Forget(m) ==
    [history EXCEPT !.docsAtSuspend[m] = Unset, !.queued[m] = 0, !.applied[m] = 0]

\* The migration succeeded: the coordinator records the decision, runs the
\* commit sequence and deletes the coordinator document.
CompleteCommit(m) ==
    /\ migs[m].state = "ConfigCommit"
    /\ DonorRunning(m)
    /\ CommitObserved(m)
    /\ rangeDeletions' = CommitSequence(m)
    /\ migrationCoordinators' = CoordinatorsWithout(m)
    /\ registry' = Unregistered(m)
    /\ migs' = [migs EXCEPT ![m].state = "Done"]
    /\ cloneLocs' = [cloneLocs EXCEPT ![m] = {}]
    /\ history' = Forget(m)
    /\ UNCHANGED <<modBuffer, handle, result>>
    /\ UNCHANGED <<lockVars, routingVars, otherVars, configVars, dataVars, deleter, pins>>

\* The migration failed (a timeout of the donor's poll, a failed command, a
\* failed commit): the coordinator records the decision, runs the abort
\* sequence and deletes the coordinator document.
Abort(m) ==
    /\ m \in InFlight
    /\ DonorRunning(m)
    /\ ~CommitObserved(m)
    /\ rangeDeletions' = AbortSequence(m)
    /\ migrationCoordinators' = CoordinatorsWithout(m)
    /\ registry' = Unregistered(m)
    /\ migs' = [migs EXCEPT ![m].state = "Aborted"]
    /\ cloneLocs' = [cloneLocs EXCEPT ![m] = {}]
    /\ modBuffer' = [modBuffer EXCEPT ![m] = <<>>]
    /\ history' = Forget(m)
    /\ UNCHANGED <<handle, result>>
    /\ UNCHANGED <<lockVars, routingVars, otherVars, configVars, dataVars, deleter, pins>>

\* How a finished migration is reported to the callers waiting for it.
Outcome(m) == IF migs[m].state = "Done" THEN "Committed" ELSE "Aborted"

\* The caller of moveChunk learns how the migration it waits for ended.
AwaitMigration(u) ==
    /\ handle[u] # 0
    /\ migs[handle[u]].state \in Terminal
    /\ result' = [result EXCEPT ![u].outcome = Outcome(handle[u])]
    /\ handle' = [handle EXCEPT ![u] = 0]
    /\ UNCHANGED <<registry, migs, cloneLocs, modBuffer, migrationCoordinators>>
    /\ UNCHANGED <<lockVars, routingVars, otherVars, configVars, dataVars, cleanupVars, history>>

\* A client write to the shard that owns the chunk: an insert, an update or a
\* delete (v = NoDoc) of document k. It is refused while the chunk is in a
\* critical section and queued for the recipient while the chunk is cloned.
Write(c, k, v) ==
    LET s == owner[c]
        cur == docs[s][c][k]
        op == IF cur = NoDoc THEN "i" ELSE IF v = NoDoc THEN "d" ELSE "u"
        queueing == {m \in MigIds : /\ migs[m].chunk = c
                                     /\ migs[m].state \in QueueingStates
                                     /\ DonorRunning(m)}
    IN  /\ nWrites < MaxWrites
        /\ v # cur
        /\ ~\E m \in MigIds : migs[m].chunk = c /\ migs[m].state \in CriticalStates
        /\ docs' = [docs EXCEPT ![s][c][k] = v]
        /\ nWrites' = nWrites + 1
        /\ modBuffer' = [m \in MigIds |->
                IF m \in queueing THEN Append(modBuffer[m], Mod(op, k, v)) ELSE modBuffer[m]]
        /\ history' = [history EXCEPT !.queued =
                [m \in MigIds |-> IF m \in queueing THEN @[m] + 1 ELSE @[m]]]
        /\ UNCHANGED <<registry, migs, cloneLocs, migrationCoordinators, handle, result>>
        /\ UNCHANGED <<lockVars, routingVars, otherVars, configVars, cleanupVars>>

\* ------------------------------------------------------------------------
\* Orphaned range deletion
\* ------------------------------------------------------------------------

NoTask == [chunk |-> "-", mig |-> 0, pending |-> FALSE]

Idle == [task |-> NoTask, step |-> "idle"]

\* A query starts on the shard that owns the chunk and pins its metadata;
\* no query starts while reads are suspended for the commit.
StartRead(s, c) ==
    /\ owner[c] = s
    /\ ~\E m \in MigIds : migs[m].chunk = c /\ migs[m].state = "ConfigCommit"
    /\ pins[s][c] < MaxReaders
    /\ pins' = [pins EXCEPT ![s][c] = @ + 1]
    /\ UNCHANGED <<lockVars, routingVars, otherVars, configVars, migVars, dataVars, rangeDeletions, deleter, history>>

\* A query completes and releases the metadata it had pinned.
EndRead(s, c) ==
    /\ pins[s][c] > 0
    /\ pins' = [pins EXCEPT ![s][c] = @ - 1]
    /\ UNCHANGED <<lockVars, routingVars, otherVars, configVars, migVars, dataVars, rangeDeletions, deleter, history>>

\* The range deleter's single thread takes up a range that is ready.
StartDeletion(s, t) ==
    /\ deleter[s].step = "idle"
    /\ t \in rangeDeletions[s]
    /\ ~t.pending
    /\ deleter' = [deleter EXCEPT ![s] = [task |-> t, step |-> "waitForQueries"]]
    /\ history' = [history EXCEPT !.executed = @ \cup {<<s, t.mig>>}]
    /\ UNCHANGED <<lockVars, routingVars, otherVars, configVars, migVars, dataVars, rangeDeletions, pins>>

NoQueries_NoWait(s, c) == TRUE

NoQueries_OtherRanges(s, c) == \A x \in Chunks \ {c} : pins[s][x] = 0

\* Every query that had pinned the chunk's metadata on the shard completed.
NoQueries(s, c) == pins[s][c] = 0

\* The deleter first waits for the queries on the primary to complete.
QueriesDrained(s) ==
    /\ deleter[s].step = "waitForQueries"
    /\ NoQueries(s, deleter[s].task.chunk)
    /\ deleter' = [deleter EXCEPT ![s].step = "waitDelay"]
    /\ UNCHANGED <<lockVars, routingVars, otherVars, configVars, migVars, dataVars, rangeDeletions, pins, history>>

\* It then waits the orphan cleanup delay for the queries on secondaries.
DelayElapsed(s) ==
    /\ deleter[s].step = "waitDelay"
    /\ deleter' = [deleter EXCEPT ![s].step = "deleting"]
    /\ UNCHANGED <<lockVars, routingVars, otherVars, configVars, migVars, dataVars, rangeDeletions, pins, history>>

\* Documents deleted by one batch of the range deleter.
DeleteBatchSize == 1

\* The keys present in chunk c on shard s.
KeysPresent(s, c) == {k \in Keys : docs[s][c][k] # NoDoc}

\* The next keys that the range deleter deletes: the lowest of those present.
DeleteBatch(s, c) ==
    {k \in KeysPresent(s, c) : Cardinality({j \in KeysPresent(s, c) : j < k}) < DeleteBatchSize}

\* The documents of the range are deleted in batches; when none is left the
\* range deletion document is deleted.
DeleteRange(s) ==
    LET t == deleter[s].task
        batch == DeleteBatch(s, t.chunk)
    IN  /\ deleter[s].step = "deleting"
        /\ IF batch = {}
             THEN /\ rangeDeletions' = [rangeDeletions EXCEPT ![s] = @ \ {t}]
                  /\ deleter' = [deleter EXCEPT ![s] = Idle]
                  /\ UNCHANGED docs
             ELSE /\ docs' = [docs EXCEPT ![s][t.chunk] =
                        [k \in Keys |-> IF k \in batch THEN NoDoc ELSE @[k]]]
                  /\ UNCHANGED <<rangeDeletions, deleter>>
        /\ UNCHANGED <<lockVars, routingVars, otherVars, configVars, migVars, nWrites, pins, history>>


\* ------------------------------------------------------------------------
\* Crash and recovery
\* ------------------------------------------------------------------------

\* Shard s crashes or steps down: what it held in memory is lost (its
\* registry, the cloner's state of its outgoing migration, the range
\* deleter's progress, the queries it was running); its documents and its
\* config collections survive.
Crash(s) ==
    LET lost == {m \in InFlight : migs[m].donor = s}
    IN  /\ registry[s] # {} \/ deleter[s].step # "idle"
        /\ registry' = [registry EXCEPT ![s] = {}]
        /\ cloneLocs' = [m \in MigIds |-> IF m \in lost THEN {} ELSE cloneLocs[m]]
        /\ modBuffer' = [m \in MigIds |-> IF m \in lost THEN <<>> ELSE modBuffer[m]]
        /\ deleter' = [deleter EXCEPT ![s] = Idle]
        /\ pins' = [pins EXCEPT ![s] = [c \in Chunks |-> 0]]
        /\ UNCHANGED <<migs, migrationCoordinators, handle, result>>
        /\ UNCHANGED <<lockVars, routingVars, otherVars, configVars, dataVars, rangeDeletions, history>>

Decision_AlwaysAbort(m) == "aborted"

Decision_AlwaysCommit(m) == "committed"

\* The decision of a recovered migration: committed if and only if the commit
\* is observed on the config server.
Decision(m) == IF CommitObserved(m) THEN "committed" ELSE "aborted"

\* On restart the donor resumes the migration its coordinator document (if it
\* got to write one) describes: it derives the decision from the config
\* server and runs the commit or the abort sequence.
Recover(m) ==
    /\ m \in InFlight
    /\ ~DonorRunning(m)
    /\ rangeDeletions' = IF Decision(m) = "committed" THEN CommitSequence(m) ELSE AbortSequence(m)
    /\ migs' = [migs EXCEPT ![m].state = IF Decision(m) = "committed" THEN "Done" ELSE "Aborted"]
    /\ migrationCoordinators' = CoordinatorsWithout(m)
    /\ registry' = Unregistered(m)
    /\ cloneLocs' = [cloneLocs EXCEPT ![m] = {}]
    /\ modBuffer' = [modBuffer EXCEPT ![m] = <<>>]
    /\ history' = [Forget(m) EXCEPT !.recovered = @ \cup {m}]
    /\ UNCHANGED <<handle, result>>
    /\ UNCHANGED <<lockVars, routingVars, otherVars, configVars, dataVars, deleter, pins>>

\* ------------------------------------------------------------------------
\* Versioning updates: stale versions, refresh and retry
\* ------------------------------------------------------------------------

\* What requests are versioned on: the database and one sharded collection.
RoutedResources == {"db", "db.coll1"}

\* A database version: the UUID and the last modified field.
DatabaseVersion(uuid, lastModified) == [uuid |-> uuid, lastModified |-> lastModified]

\* a is an older version than b of the same instance of the database.
DatabaseVersionOlder(a, b) == a.uuid = b.uuid /\ a.lastModified < b.lastModified

\* Changing the primary shard increments the database's last modified field.
MovePrimaryVersion(v) == [v EXCEPT !.lastModified = @ + 1]

\* The version of a resource in the config server's metadata.
Authoritative(res) ==
    IF res = "db" THEN databases.version ELSE CollectionVersion(res)

\* a is older than b, both versions of resource res.
Older(res, a, b) ==
    IF res = "db" THEN DatabaseVersionOlder(a, b) ELSE VersionOlder(a, b)

\* What a remote node answers on a version mismatch.
StaleError(res) ==
    IF res = "db" THEN "StaleDatabaseVersion" ELSE "StaleShardVersion"

NoRequest == [pc |-> "idle", outcome |-> "none", stales |-> 0, attempts |-> 0]

\* A request on its way to the remote node with the origin's cached version.
SentRequest(res, target, version, attempts, stales) ==
    [pc |-> "sent", res |-> res, target |-> target, version |-> version,
     attempts |-> attempts, stales |-> stales, outcome |-> "none"]

\* The retry of request q with the version the origin caches now; it keeps the
\* number of placement changes at which the request was first answered as
\* stale.
RetriedRequest(q, version) ==
    [pc |-> "sent", res |-> q.res, target |-> q.target, version |-> version,
     attempts |-> q.attempts + 1, stales |-> q.stales, outcome |-> "none",
     since |-> q.since]

\* A request that has ended.
EndedRequest(q, outcome) ==
    [pc |-> "done", res |-> q.res, outcome |-> outcome,
     attempts |-> q.attempts, stales |-> q.stales]

\* The origin node attaches its cached version of the resource and sends
\* the request to a remote node.
NewRequest(r, res, s) ==
    /\ req[r].pc \in {"idle", "done"}
    /\ req' = [req EXCEPT ![r] = SentRequest(res, s, cache[r][res], 1, 0)]
    /\ UNCHANGED <<databases, cache, refresh, nChanges>>
    /\ UNCHANGED <<lockVars, shardingVars, otherVars>>

\* The remote node compares the attached version with its own: the request
\* proceeds when they are the same, and is answered with the mismatch and
\* the remote node's version otherwise.
ValidateVersion(r) ==
    LET q == req[r]
    IN  /\ q.pc = "sent"
        /\ IF q.version = cache[q.target][q.res]
              THEN req' = [req EXCEPT ![r] = EndedRequest(q, "Accepted")]
              ELSE req' = [req EXCEPT ![r] =
                              [pc |-> "stale", res |-> q.res, target |-> q.target,
                               version |-> q.version,
                               remote |-> cache[q.target][q.res],
                               error |-> StaleError(q.res),
                               attempts |-> q.attempts, stales |-> q.stales,
                               outcome |-> "none",
                               since |-> IF q.stales = 0 THEN nChanges
                                                         ELSE q.since]]
        /\ UNCHANGED <<databases, cache, refresh, nChanges>>
        /\ UNCHANGED <<lockVars, shardingVars, otherVars>>

RetriesExhausted_Never(n) == FALSE

\* The request has been answered as stale as often as it may be.
RetriesExhausted(n) == n >= MaxStaleRetries

OlderSide_Origin(r, q) == r

\* The node that reported the older version: the remote node if its version
\* is the older one, the origin otherwise.
OlderSide(r, q) ==
    IF Older(q.res, q.remote, q.version) THEN q.target ELSE r

\* A refresh of resource res from the config server, started for a request
\* of router r.
Refresh(res, r) == [res |-> res, by |-> r]

\* The refreshes of resource res in flight on node n.
RefreshesOf(n, res) == {f \in refresh[n] : f.res = res}

JoinOrStart_AlwaysStart(n, res, r) == refresh[n] \cup {Refresh(res, r)}

\* The refreshes in flight on node n once a request of router r needs
\* resource res refreshed there: the request joins the refresh of the
\* resource that is in flight, and starts one only if there is none.
JoinOrStart(n, res, r) ==
    IF RefreshesOf(n, res) # {} THEN refresh[n] ELSE refresh[n] \cup {Refresh(res, r)}

\* The origin node receives the mismatch: it gives up if the request has
\* been stale too often; otherwise whichever node reported the older version
\* starts to refresh, unless a refresh of the resource is already in flight
\* there, which the request then waits for.
HandleStale(r) ==
    LET q == req[r]
        n == q.stales + 1
    IN  /\ q.pc = "stale"
        /\ IF RetriesExhausted(n)
              THEN /\ req' = [req EXCEPT ![r] =
                                 EndedRequest([q EXCEPT !.stales = n],
                                              "StaleConfigRetriesExhausted")]
                   /\ UNCHANGED refresh
              ELSE /\ req' = [req EXCEPT ![r] =
                                 [pc |-> "refreshing", res |-> q.res,
                                  target |-> q.target,
                                  version |-> q.version,
                                  remote |-> q.remote,
                                  refresher |-> OlderSide(r, q),
                                  attempts |-> q.attempts, stales |-> n,
                                  outcome |-> "none", since |-> q.since]]
                   /\ refresh' = [refresh EXCEPT ![OlderSide(r, q)] =
                                      JoinOrStart(OlderSide(r, q), q.res, r)]
        /\ UNCHANGED <<databases, cache, nChanges>>
        /\ UNCHANGED <<lockVars, shardingVars, otherVars>>

\* A refresh ends: the node now caches the config server's version.
FinishRefresh(n, res) ==
    /\ \E f \in RefreshesOf(n, res) : refresh' = [refresh EXCEPT ![n] = @ \ {f}]
    /\ cache' = [cache EXCEPT ![n][res] = Authoritative(res)]
    /\ UNCHANGED <<databases, req, nChanges>>
    /\ UNCHANGED <<lockVars, shardingVars, otherVars>>

\* Once the refresh is over, the origin node retries the request with the
\* version it caches now.
Retry(r) ==
    LET q == req[r]
    IN  /\ q.pc = "refreshing"
        /\ RefreshesOf(q.refresher, q.res) = {}
        /\ req' = [req EXCEPT ![r] = RetriedRequest(q, cache[r][q.res])]
        /\ UNCHANGED <<databases, cache, refresh, nChanges>>
        /\ UNCHANGED <<lockVars, shardingVars, otherVars>>

\* The other shard.
OtherShard(s) == CHOOSE t \in Shards : t # s

\* The primary shard of the database changes: the last modified field is
\* incremented, and the former primary knows the new version.
MovePrimary ==
    LET from == databases.primary
        v == MovePrimaryVersion(databases.version)
    IN  /\ nChanges < MaxPlacementChanges
        /\ databases' = [primary |-> OtherShard(from), version |-> v]
        /\ cache' = [cache EXCEPT ![from]["db"] = v]
        /\ nChanges' = nChanges + 1
        /\ UNCHANGED <<refresh, req>>
        /\ UNCHANGED <<lockVars, shardingVars, otherVars>>

\* A chunk of the routed collection has moved to the other shard: its major
\* version is incremented, and the donor knows the new version.
ChunkMoved(c) ==
    LET from == owner[c]
        v == MoveChunkVersion(chunkVersion[c])
    IN  /\ nChanges < MaxPlacementChanges
        /\ CollOf[c] \in RoutedResources
        /\ owner' = [owner EXCEPT ![c] = OtherShard(from)]
        /\ chunkVersion' = [chunkVersion EXCEPT ![c] = v]
        /\ cache' = [cache EXCEPT ![from][CollOf[c]] = v]
        /\ nChanges' = nChanges + 1
        /\ UNCHANGED <<databases, refresh, req>>
        /\ UNCHANGED <<lockVars, otherVars, migVars, dataVars, cleanupVars, history>>

\* ------------------------------------------------------------------------
\* Initial sync of a node added to a replica set
\* (jstests/replsets/no_progress_updates_during_initial_sync.js)
\* ------------------------------------------------------------------------

\* The nodes of the test: the primary, the steady-state secondary (node 1)
\* and the node that is added.
ReplNodes == {"node0", "node1", "node2"}
Primary == "node0"
SteadySecondary == "node1"
Secondary == "node2"

\* Optimes are positions in the primary's oplog; 0 is the null optime.
nullOpTime == 0

\* The documents the test inserts while initial sync hangs after cloning.
NumInserted == 5

Member(state, applied, durable, lastCommitted) ==
    [state |-> state, appliedOpTime |-> applied, durableOpTime |-> durable,
     lastCommittedOpTime |-> lastCommitted]

\* What the primary reports of a member in replSetGetStatus.
MemberView(optime, optimeDurable, heard) ==
    [optime |-> optime, optimeDurable |-> optimeDurable, heard |-> heard]

Up(n) == members[n].state \in {"PRIMARY", "SECONDARY", "STARTUP2"}

InInitialSync(n) == members[n].state = "STARTUP2"

ReportedOpTimes_Own(n) ==
    [optime |-> members[n].appliedOpTime, optimeDurable |-> members[n].durableOpTime]

\* The optimes in a node's heartbeat response: null lastApplied and
\* lastDurable while the node is in initial sync.
ReportedOpTimes(n) ==
    IF InInitialSync(n)
        THEN [optime |-> nullOpTime, optimeDurable |-> nullOpTime]
        ELSE [optime |-> members[n].appliedOpTime, optimeDurable |-> members[n].durableOpTime]

\* The primary receives the response to a heartbeat it sent to node n.
Heartbeat(n) ==
    /\ n \in rsConfig \ {Primary}
    /\ Up(n) /\ Up(Primary)
    /\ primaryView' = [primaryView EXCEPT ![n] =
                          MemberView(ReportedOpTimes(n).optime,
                                     ReportedOpTimes(n).optimeDurable, TRUE)]
    /\ UNCHANGED <<testPc, rsConfig, members, failpoints, initialSync,
                   numUpdatePosition, pendingWrite, writeRes>>
    /\ UNCHANGED <<lockVars, shardingVars, routingVars, versionVars>>

\* Whether node n sends replSetUpdatePosition commands upstream: a node in
\* initial sync sends none at all.
SendsUpdatePosition(n) == Up(n) /\ ~InInitialSync(n)

\* Node n reports its progress upstream with replSetUpdatePosition.
UpdatePosition(n) ==
    /\ n \in rsConfig \ {Primary}
    /\ Up(Primary)
    /\ SendsUpdatePosition(n)
    /\ <<primaryView[n].optime, primaryView[n].optimeDurable>> #
          <<members[n].appliedOpTime, members[n].durableOpTime>>
    /\ primaryView' = [primaryView EXCEPT ![n].optime = members[n].appliedOpTime,
                                          ![n].optimeDurable = members[n].durableOpTime]
    /\ numUpdatePosition' = IF n = Secondary THEN numUpdatePosition + 1
                                             ELSE numUpdatePosition
    /\ UNCHANGED <<testPc, rsConfig, members, failpoints, initialSync,
                   pendingWrite, writeRes>>
    /\ UNCHANGED <<lockVars, shardingVars, routingVars, versionVars>>

\* A secondary fetches and applies, in one batch, the operations of the
\* primary's oplog that it does not have.
Replicate(n) ==
    /\ n \in rsConfig /\ members[n].state = "SECONDARY" /\ Up(Primary)
    /\ members[n].appliedOpTime < members[Primary].appliedOpTime
    /\ members' = [members EXCEPT ![n].appliedOpTime = members[Primary].appliedOpTime]
    /\ UNCHANGED <<testPc, rsConfig, primaryView, failpoints, initialSync,
                   numUpdatePosition, pendingWrite, writeRes>>
    /\ UNCHANGED <<lockVars, shardingVars, routingVars, versionVars>>

\* What a node has applied becomes durable.
Flush(n) ==
    /\ Up(n)
    /\ members[n].durableOpTime < members[n].appliedOpTime
    /\ members' = [members EXCEPT ![n].durableOpTime = members[n].appliedOpTime]
    /\ UNCHANGED <<testPc, rsConfig, primaryView, failpoints, initialSync,
                   numUpdatePosition, pendingWrite, writeRes>>
    /\ UNCHANGED <<lockVars, shardingVars, routingVars, versionVars>>

\* What the primary knows node n to have applied, and to have made durable.
KnownApplied(n) ==
    IF n = Primary THEN members[n].appliedOpTime ELSE primaryView[n].optime

KnownDurable(n) ==
    IF n = Primary THEN members[n].durableOpTime ELSE primaryView[n].optimeDurable

\* The number of nodes that make a majority of the configuration.
Majority == (Cardinality(rsConfig) \div 2) + 1

\* The optimes past the commit point that the primary knows to be durable on
\* a majority of the nodes.
MajorityDurable ==
    {t \in (members[Primary].lastCommittedOpTime + 1)..members[Primary].appliedOpTime :
        Cardinality({n \in rsConfig : KnownDurable(n) >= t}) >= Majority}

\* The primary advances the commit point to the last optime that it knows to
\* be durable on a majority of the nodes.
AdvanceCommitPoint ==
    /\ Up(Primary)
    /\ MajorityDurable # {}
    /\ members' = [members EXCEPT ![Primary].lastCommittedOpTime =
                      CHOOSE t \in MajorityDurable : \A u \in MajorityDurable : u <= t]
    /\ UNCHANGED <<testPc, rsConfig, primaryView, failpoints, initialSync,
                   numUpdatePosition, pendingWrite, writeRes>>
    /\ UNCHANGED <<lockVars, shardingVars, routingVars, versionVars>>

\* The commit point that node n can take over from the primary.
CommitPointFor(n) ==
    IF members[Primary].lastCommittedOpTime < members[n].appliedOpTime
        THEN members[Primary].lastCommittedOpTime
        ELSE members[n].appliedOpTime

\* A secondary learns the commit point; a node in initial sync does not
\* advance its lastCommitted optime.
LearnCommitPoint(n) ==
    /\ n \in rsConfig /\ members[n].state = "SECONDARY" /\ Up(Primary)
    /\ members[n].lastCommittedOpTime < CommitPointFor(n)
    /\ members' = [members EXCEPT ![n].lastCommittedOpTime = CommitPointFor(n)]
    /\ UNCHANGED <<testPc, rsConfig, primaryView, failpoints, initialSync,
                   numUpdatePosition, pendingWrite, writeRes>>
    /\ UNCHANGED <<lockVars, shardingVars, routingVars, versionVars>>

\* The initial sync of the added node: its phase, the optime it begins
\* applying at, the optime it stops at and the operations applied so far.
SyncStatus(phase, beginApplying, stopTimestamp, appliedOps) ==
    [phase |-> phase, beginApplying |-> beginApplying,
     stopTimestamp |-> stopTimestamp, appliedOps |-> appliedOps]

\* Data cloning is over: the node enters initialSyncHangAfterDataCloning.
FinishCloning ==
    /\ initialSync.phase = "cloning"
    /\ Up(Secondary)
    /\ initialSync' = [initialSync EXCEPT !.phase = "initialSyncHangAfterDataCloning"]
    /\ UNCHANGED <<testPc, rsConfig, members, primaryView, failpoints,
                   numUpdatePosition, pendingWrite, writeRes>>
    /\ UNCHANGED <<lockVars, shardingVars, routingVars, versionVars>>

\* The failpoint being off, the node goes on to apply the operations it
\* fetched, up to the sync source's last applied one.
StartApplying ==
    /\ initialSync.phase = "initialSyncHangAfterDataCloning"
    /\ "initialSyncHangAfterDataCloning" \notin failpoints
    /\ Up(Secondary) /\ Up(Primary)
    /\ initialSync' = [initialSync EXCEPT !.phase = "applying",
                                          !.stopTimestamp = members[Primary].appliedOpTime]
    /\ UNCHANGED <<testPc, rsConfig, members, primaryView, failpoints,
                   numUpdatePosition, pendingWrite, writeRes>>
    /\ UNCHANGED <<lockVars, shardingVars, routingVars, versionVars>>

FirstToApply_Exclusive(beginApplying) == beginApplying + 1

\* Fetching and applying are inclusive of the sync source's lastApplied at
\* the start.
FirstToApply(beginApplying) == beginApplying

\* The operation the node applies next.
NextToApply ==
    IF initialSync.appliedOps = 0 THEN FirstToApply(initialSync.beginApplying)
                                  ELSE members[Secondary].appliedOpTime + 1

\* The node applies, in one batch, the fetched operations up to the one it
\* stops at.
ApplyOp ==
    /\ initialSync.phase = "applying"
    /\ Up(Secondary)
    /\ NextToApply <= initialSync.stopTimestamp
    /\ members' = [members EXCEPT ![Secondary].appliedOpTime = initialSync.stopTimestamp]
    /\ initialSync' = [initialSync EXCEPT
                          !.appliedOps = @ + (initialSync.stopTimestamp - NextToApply) + 1]
    /\ UNCHANGED <<testPc, rsConfig, primaryView, failpoints,
                   numUpdatePosition, pendingWrite, writeRes>>
    /\ UNCHANGED <<lockVars, shardingVars, routingVars, versionVars>>

\* Everything is applied: the node enters initialSyncHangBeforeFinish.
FinishApplying ==
    /\ initialSync.phase = "applying"
    /\ Up(Secondary)
    /\ NextToApply > initialSync.stopTimestamp
    /\ initialSync' = [initialSync EXCEPT !.phase = "initialSyncHangBeforeFinish"]
    /\ UNCHANGED <<testPc, rsConfig, members, primaryView, failpoints,
                   numUpdatePosition, pendingWrite, writeRes>>
    /\ UNCHANGED <<lockVars, shardingVars, routingVars, versionVars>>

\* The failpoint being off, initial sync finishes and the node becomes a
\* secondary.
FinishInitialSync ==
    /\ initialSync.phase = "initialSyncHangBeforeFinish"
    /\ "initialSyncHangBeforeFinish" \notin failpoints
    /\ Up(Secondary)
    /\ initialSync' = [initialSync EXCEPT !.phase = "done"]
    /\ members' = [members EXCEPT ![Secondary].state = "SECONDARY"]
    /\ UNCHANGED <<testPc, rsConfig, primaryView, failpoints,
                   numUpdatePosition, pendingWrite, writeRes>>
    /\ UNCHANGED <<lockVars, shardingVars, routingVars, versionVars>>

\* A write the primary applied and whose write concern it waits for.
NoPending ==
    [name |-> "none", optime |-> 0, w |-> 0, majority |-> FALSE,
     wtimeout |-> FALSE, next |-> "none"]

\* Whether the write concern of write p is satisfied: w nodes are known to
\* have applied it, or for "majority" the commit point has reached it.
Satisfied(p) ==
    IF p.majority
        THEN members[Primary].lastCommittedOpTime >= p.optime
        ELSE Cardinality({n \in rsConfig : KnownApplied(n) >= p.optime}) >= p.w

\* The write concern is satisfied: the command returns without error and
\* the test goes on.
AckWrite ==
    /\ pendingWrite.name # "none"
    /\ Satisfied(pendingWrite)
    /\ writeRes' = [writeRes EXCEPT ![pendingWrite.name] = "ok"]
    /\ testPc' = pendingWrite.next
    /\ pendingWrite' = NoPending
    /\ UNCHANGED <<rsConfig, members, primaryView, failpoints, initialSync,
                   numUpdatePosition>>
    /\ UNCHANGED <<lockVars, shardingVars, routingVars, versionVars>>

\* wtimeout expires before the write concern is satisfied: the command
\* returns a write concern error.
TimeOutWrite ==
    /\ pendingWrite.name # "none"
    /\ pendingWrite.wtimeout
    /\ ~Satisfied(pendingWrite)
    /\ writeRes' = [writeRes EXCEPT ![pendingWrite.name] = "timedout"]
    /\ testPc' = pendingWrite.next
    /\ pendingWrite' = NoPending
    /\ UNCHANGED <<rsConfig, members, primaryView, failpoints, initialSync,
                   numUpdatePosition>>
    /\ UNCHANGED <<lockVars, shardingVars, routingVars, versionVars>>

\* The statements of the test, in order.

\* What a statement leaves unchanged besides the test's replica set.
TestFrame == UNCHANGED <<lockVars, shardingVars, routingVars, versionVars>>

\* An insert of one document on the primary with a write concern.
InsertWith(name, w, majority, wtimeout, at, next) ==
    /\ testPc = at
    /\ Up(Primary)
    /\ members' = [members EXCEPT ![Primary].appliedOpTime = @ + 1]
    /\ pendingWrite' = [name |-> name, optime |-> members[Primary].appliedOpTime + 1,
                        w |-> w, majority |-> majority, wtimeout |-> wtimeout,
                        next |-> next]
    /\ testPc' = "awaitWrite"
    /\ UNCHANGED <<rsConfig, primaryView, failpoints, initialSync,
                   numUpdatePosition, writeRes>>
    /\ TestFrame

\* insert({"starting": "doc"}, {writeConcern: {w: 2}})
InsertStartingDoc == InsertWith("startingDoc", 2, FALSE, FALSE, "insertStartingDoc", "addSecondary")

\* rst.add with the failpoints on, rst.reInitiate, waitForState STARTUP_2:
\* the node starts initial sync from the primary.
AddSecondary ==
    /\ testPc = "addSecondary"
    /\ rsConfig' = rsConfig \cup {Secondary}
    /\ members' = [members EXCEPT ![Secondary].state = "STARTUP2"]
    /\ failpoints' = {"initialSyncHangAfterDataCloning", "initialSyncHangBeforeFinish"}
    /\ initialSync' = SyncStatus("cloning", members[Primary].appliedOpTime, 0, 0)
    /\ testPc' = "stopSteadySecondary"
    /\ UNCHANGED <<primaryView, numUpdatePosition, pendingWrite, writeRes>>
    /\ TestFrame

StoppedMember_StillUp(m) == m

\* A node that was shut down.
StoppedMember(m) == [m EXCEPT !.state = "DOWN"]

\* rst.stop(1): the steady-state secondary cannot participate in the majority.
StopSteadySecondary ==
    /\ testPc = "stopSteadySecondary"
    /\ members' = [members EXCEPT ![SteadySecondary] = StoppedMember(@)]
    /\ testPc' = "waitForHangAfterDataCloning"
    /\ UNCHANGED <<rsConfig, primaryView, failpoints, initialSync,
                   numUpdatePosition, pendingWrite, writeRes>>
    /\ TestFrame

\* waitForFailPoint: the test goes on once initial sync hangs in phase hang.
WaitForFailPoint(hang, at, next) ==
    /\ testPc = at
    /\ initialSync.phase = hang
    /\ testPc' = next
    /\ UNCHANGED <<rsConfig, members, primaryView, failpoints, initialSync,
                   numUpdatePosition, pendingWrite, writeRes>>
    /\ TestFrame

WaitForHangAfterDataCloning ==
    WaitForFailPoint("initialSyncHangAfterDataCloning",
                     "waitForHangAfterDataCloning", "insertDocs")

\* insert([{a: 1}, {b: 2}, {c: 3}, {d: 4}, {e: 5}]) advances the primary's
\* lastApplied.
InsertDocs ==
    /\ testPc = "insertDocs"
    /\ Up(Primary)
    /\ members' = [members EXCEPT ![Primary].appliedOpTime = @ + NumInserted]
    /\ testPc' = "resumeInitialSync"
    /\ UNCHANGED <<rsConfig, primaryView, failpoints, initialSync,
                   numUpdatePosition, pendingWrite, writeRes>>
    /\ TestFrame

\* configureFailPoint with mode "off".
TurnOffFailPoint(fp, at, next) ==
    /\ testPc = at
    /\ failpoints' = failpoints \ {fp}
    /\ testPc' = next
    /\ UNCHANGED <<rsConfig, members, primaryView, initialSync,
                   numUpdatePosition, pendingWrite, writeRes>>
    /\ TestFrame

ResumeInitialSync ==
    TurnOffFailPoint("initialSyncHangAfterDataCloning",
                     "resumeInitialSync", "waitForHangBeforeFinish")

WaitForHangBeforeFinish ==
    WaitForFailPoint("initialSyncHangBeforeFinish",
                     "waitForHangBeforeFinish", "checkUpdatePosition")

\* A statement that sleeps or reads a status and changes nothing.
Reads(at, next) ==
    /\ testPc = at
    /\ testPc' = next
    /\ UNCHANGED <<rsConfig, members, primaryView, failpoints, initialSync,
                   numUpdatePosition, pendingWrite, writeRes>>
    /\ TestFrame

\* sleep(4 * 1000) and serverStatus: numUpdatePosition is read.
CheckUpdatePosition == Reads("checkUpdatePosition", "writeW2")

\* insert with writeConcern {w: 2, wtimeout: 4000}
WriteW2 == InsertWith("writeResW2", 2, FALSE, TRUE, "writeW2", "writeWMaj")

\* insert with writeConcern {w: "majority", wtimeout: 4000}
WriteWMaj == InsertWith("writeResWMaj", 0, TRUE, TRUE, "writeWMaj", "checkStatus")

\* replSetGetStatus on the secondary and on the primary.
CheckStatus == Reads("checkStatus", "finishInitialSync")

TurnOffHangBeforeFinish ==
    TurnOffFailPoint("initialSyncHangBeforeFinish",
                     "finishInitialSync", "awaitSecondaryNodes")

\* rst.awaitSecondaryNodes(null, [secondary])
AwaitSecondaryNodes ==
    /\ testPc = "awaitSecondaryNodes"
    /\ members[Secondary].state = "SECONDARY"
    /\ testPc' = "writeWillSucceed"
    /\ UNCHANGED <<rsConfig, members, primaryView, failpoints, initialSync,
                   numUpdatePosition, pendingWrite, writeRes>>
    /\ TestFrame

\* insert({"will": "succeed"}) with writeConcern {w: 2}
WriteWillSucceed == InsertWith("willSucceed", 2, FALSE, FALSE, "writeWillSucceed", "restart")

\* rst.restart(1)
RestartSteadySecondary ==
    /\ testPc = "restart"
    /\ members' = [members EXCEPT ![SteadySecondary].state = "SECONDARY"]
    /\ testPc' = "stopSet"
    /\ UNCHANGED <<rsConfig, primaryView, failpoints, initialSync,
                   numUpdatePosition, pendingWrite, writeRes>>
    /\ TestFrame

\* rst.stopSet()
StopSet ==
    /\ testPc = "stopSet"
    /\ members' = [n \in ReplNodes |-> StoppedMember(members[n])]
    /\ testPc' = "done"
    /\ UNCHANGED <<rsConfig, primaryView, failpoints, initialSync,
                   numUpdatePosition, pendingWrite, writeRes>>
    /\ TestFrame

\* The writes of the test that carry a write concern.
WriteNames == {"startingDoc", "writeResW2", "writeResWMaj", "willSucceed"}

\* After rst.startSet and rst.initiate: a primary and a secondary that has
\* everything the primary has.
InitReplSet ==
    /\ testPc = "insertStartingDoc"
    /\ rsConfig = {Primary, SteadySecondary}
    /\ members = [n \in ReplNodes |->
                    IF n = Primary THEN Member("PRIMARY", 1, 1, 1)
                    ELSE IF n = SteadySecondary THEN Member("SECONDARY", 1, 1, 1)
                    ELSE Member("REMOVED", nullOpTime, nullOpTime, nullOpTime)]
    /\ primaryView = [n \in ReplNodes |->
                        IF n = SteadySecondary THEN MemberView(1, 1, TRUE)
                        ELSE MemberView(nullOpTime, nullOpTime, FALSE)]
    /\ failpoints = {}
    /\ initialSync = SyncStatus("none", nullOpTime, nullOpTime, 0)
    /\ numUpdatePosition = 0
    /\ pendingWrite = NoPending
    /\ writeRes = [name \in WriteNames |-> "none"]

InitLock ==
    /\ locks = {}
    /\ lockpings = [o \in Processes |-> 0]
    /\ now = 0
    /\ lockView = [o \in Processes |-> [r \in Resources |-> "none"]]
    /\ protected = [r \in Resources |-> NoWrite]

\* The documents each chunk starts with: two in c1, one in c2.
InitialDocs(c) == [k \in Keys |-> IF c = "c1" \/ k = 1 THEN "x" ELSE NoDoc]

InitSharding ==
    /\ owner = [c \in Chunks |-> "shardA"]
    /\ chunkVersion = [c \in Chunks |-> ChunkVersion(1, 0, EpochOf[CollOf[c]])]
    /\ registry = [s \in Shards |-> {}]
    /\ migs = [m \in MigIds |-> NoMig]
    /\ cloneLocs = [m \in MigIds |-> {}]
    /\ modBuffer = [m \in MigIds |-> <<>>]
    /\ docs = [s \in Shards |-> [c \in Chunks |->
                  IF s = "shardA" THEN InitialDocs(c) ELSE [k \in Keys |-> NoDoc]]]
    /\ rangeDeletions = [s \in Shards |-> {}]
    /\ migrationCoordinators = [s \in Shards |-> {}]
    /\ deleter = [s \in Shards |-> Idle]
    /\ pins = [s \in Shards |-> [c \in Chunks |-> 0]]
    /\ handle = [u \in Callers |-> 0]
    /\ result = [u \in Callers |-> CallResult("-", 0, "none")]
    /\ nWrites = 0
    /\ history = [docsAtSuspend |-> [m \in MigIds |-> Unset],
                  executed |-> {},
                  committed |-> {},
                  critical |-> {},
                  recovered |-> {},
                  queued |-> [m \in MigIds |-> 0],
                  applied |-> [m \in MigIds |-> 0]]

\* Every node starts with the versions of the config server in its cache.
InitRouting ==
    /\ databases = [primary |-> "shardA", version |-> DatabaseVersion("U1", 1)]
    /\ cache = [n \in Nodes |-> [res \in RoutedResources |->
                  IF res = "db" THEN DatabaseVersion("U1", 1)
                                ELSE ChunkVersion(1, 0, EpochOf[res])]]
    /\ refresh = [n \in Nodes |-> {}]
    /\ req = [r \in Routers |-> NoRequest]
    /\ nChanges = 0

\* The first chunk of a sharded collection has version 1|0.
FirstChunkVersion == ChunkVersion(1, 0, "E1")

InitVersion ==
    /\ chunkVer = FirstChunkVersion
    /\ shardVer = FirstChunkVersion
    /\ collVer = FirstChunkVersion
    /\ start = FirstChunkVersion
    /\ ops = <<>>
    /\ compared = [a |-> FirstChunkVersion, b |-> FirstChunkVersion, result |-> "equal"]

\* Any chunk of a sharded collection, on any shard of any collection.
InitAnyVersion ==
    /\ chunkVer \in {v \in Versions : v.major >= 1}
    /\ start = chunkVer
    /\ \E ctx \in Contexts(chunkVer) : shardVer = ctx[1] /\ collVer = ctx[2]
    /\ ops = <<>>
    /\ compared = [a |-> FirstChunkVersion, b |-> FirstChunkVersion, result |-> "equal"]

Init == InitLock /\ InitSharding /\ InitRouting /\ InitVersion /\ InitReplSet

InitVersions == InitLock /\ InitSharding /\ InitRouting /\ InitAnyVersion /\ InitReplSet

NextLock ==
    \/ \E r \in Resources, o \in Processes : Acquire(r, o)
    \/ \E r \in Resources, o \in Processes : Release(r, o)
    \/ \E o \in Processes : Ping(o)
    \/ Tick

SpecLock == Init /\ [][NextLock]_vars

\* The lock on one resource, with writes protected by it.
LeaseResources == {"db1"}

NextLease ==
    \/ \E r \in LeaseResources, o \in Processes : Acquire(r, o)
    \/ \E r \in LeaseResources, o \in Processes : Release(r, o)
    \/ \E r \in LeaseResources, o \in Processes : ProtectedWrite(r, o)
    \/ \E o \in Processes : Ping(o)
    \/ Tick

SpecLease == Init /\ [][NextLease]_vars

\* The steps of the live migration protocol once a migration is registered.
MigrationStep ==
    \/ \E m \in MigIds : DonorStartClone(m)
    \/ \E m \in MigIds : RecvChunkStart(m)
    \/ \E m \in MigIds : MigrateClone(m)
    \/ \E m \in MigIds : TransferMods(m)
    \/ \E m \in MigIds : EnterCriticalSection(m)
    \/ \E m \in MigIds : RecvChunkCommit(m)
    \/ \E m \in MigIds : SendCommit(m)
    \/ \E m \in MigIds : CommitChunkMigration(m)
    \/ \E m \in MigIds : CompleteCommit(m)
    \/ \E m \in MigIds : Abort(m)
    \/ \E u \in Callers : AwaitMigration(u)

\* The steps of the range deleter.
DeleterStep ==
    \/ \E s \in Shards : \E t \in rangeDeletions[s] : StartDeletion(s, t)
    \/ \E s \in Shards : QueriesDrained(s)
    \/ \E s \in Shards : DelayElapsed(s)
    \/ \E s \in Shards : DeleteRange(s)

\* Concurrent moveChunk commands of several callers for several chunks.
NextMig ==
    \/ \E u \in Callers, c \in Chunks, to \in Shards : BeginMigration(u, c, to)
    \/ MigrationStep
    \/ DeleterStep

SpecMig == Init /\ [][NextMig]_vars

\* One caller moving chunk c1 back and forth while clients write to it and
\* shards crash and recover.
NextClone ==
    \/ \E to \in Shards : BeginMigration("u1", "c1", to)
    \/ MigrationStep
    \/ DeleterStep
    \/ \E k \in Keys, v \in Values \cup {NoDoc} : Write("c1", k, v)
    \/ \E s \in Shards : Crash(s)
    \/ \E m \in MigIds : Recover(m)

SpecClone == Init /\ [][NextClone]_vars

\* One caller moving chunks, with queries running and no client writes.
NextCleanup ==
    \/ \E c \in Chunks, to \in Shards : BeginMigration("u1", c, to)
    \/ MigrationStep
    \/ DeleterStep
    \/ \E s \in Shards, c \in Chunks : StartRead(s, c)
    \/ \E s \in Shards, c \in Chunks : EndRead(s, c)

SpecCleanup == Init /\ [][NextCleanup]_vars

\* The range deleter's thread of shard s takes its next step.
DeleterStepOn(s) ==
    \/ \E t \in rangeDeletions[s] : StartDeletion(s, t)
    \/ QueriesDrained(s)
    \/ DelayElapsed(s)
    \/ DeleteRange(s)

\* Threads that are able to run do run: the coordinator completes a migration
\* that has committed or that only an abort can end, the range deleter's
\* thread takes its steps, and queries complete.
FairCleanup ==
    /\ \A m \in MigIds : WF_vars(CompleteCommit(m))
    /\ \A s \in Shards : WF_vars(DeleterStepOn(s))
    /\ \A s \in Shards, c \in Chunks : WF_vars(EndRead(s, c))

FairSpecCleanup == SpecCleanup /\ FairCleanup

\* One caller moving chunk c1 back and forth while clients write to it and
\* query it.
NextGating ==
    \/ \E to \in Shards : BeginMigration("u1", "c1", to)
    \/ MigrationStep
    \/ DeleterStep
    \/ \E k \in Keys, v \in Values \cup {NoDoc} : Write("c1", k, v)
    \/ \E s \in Shards : StartRead(s, "c1")
    \/ \E s \in Shards : EndRead(s, "c1")

SpecGating == Init /\ [][NextGating]_vars

\* One caller moving chunk c1 back and forth between shards that crash and
\* recover, with queries of the chunk running.
NextDeletion ==
    \/ \E to \in Shards : BeginMigration("u1", "c1", to)
    \/ MigrationStep
    \/ DeleterStep
    \/ \E s \in Shards : StartRead(s, "c1")
    \/ \E s \in Shards : EndRead(s, "c1")
    \/ \E s \in Shards : Crash(s)
    \/ \E m \in MigIds : Recover(m)

SpecDeletion == Init /\ [][NextDeletion]_vars

\* The range deleter's thread takes its steps and queries complete; and the
\* shards do not keep crashing for ever.
FairDeletion ==
    /\ \A s \in Shards : WF_vars(DeleterStepOn(s))
    /\ \A s \in Shards : WF_vars(EndRead(s, "c1"))
    /\ <>[][~\E s \in Shards : Crash(s)]_vars

FairSpecDeletion == SpecDeletion /\ FairDeletion

\* One caller moving chunks between shards that crash and recover.
NextRecovery ==
    \/ \E c \in Chunks, to \in Shards : BeginMigration("u1", c, to)
    \/ MigrationStep
    \/ DeleterStep
    \/ \E s \in Shards : Crash(s)
    \/ \E m \in MigIds : Recover(m)

SpecRecovery == Init /\ [][NextRecovery]_vars

\* The donor's moveChunk command of migration m takes its next step: it goes
\* on to the next step of the protocol, or gives up because a command failed
\* or the timeout of its poll has been exceeded.
DonorStep(m) ==
    \/ DonorStartClone(m)
    \/ EnterCriticalSection(m)
    \/ SendCommit(m)
    \/ CompleteCommit(m)
    \/ Abort(m)

\* The donor's moveChunk command does not wait for ever, and a donor that
\* went down comes up again and resolves its migration. Nothing is assumed
\* of the recipient or of the config server.
FairMigration ==
    /\ \A m \in MigIds : WF_vars(DonorStep(m))
    /\ \A m \in MigIds : WF_vars(Recover(m))

FairSpecRecovery == SpecRecovery /\ FairMigration

\* In addition the range deleter's thread of every shard takes its steps, and
\* the shards do not go down for ever again and again.
FairOrphanCleanup ==
    /\ FairMigration
    /\ \A s \in Shards : WF_vars(DeleterStepOn(s))
    /\ <>[][~\E s \in Shards : Crash(s)]_vars

FairSpecOrphanCleanup == SpecRecovery /\ FairOrphanCleanup

\* The steps of the replica set's nodes.
ReplSetStep ==
    \/ \E n \in ReplNodes : Heartbeat(n)
    \/ \E n \in ReplNodes : UpdatePosition(n)
    \/ \E n \in ReplNodes : Replicate(n)
    \/ \E n \in ReplNodes : Flush(n)
    \/ \E n \in ReplNodes : LearnCommitPoint(n)
    \/ AdvanceCommitPoint
    \/ FinishCloning
    \/ StartApplying
    \/ ApplyOp
    \/ FinishApplying
    \/ FinishInitialSync
    \/ AckWrite
    \/ TimeOutWrite

\* The statements of the test.
TestStep ==
    \/ InsertStartingDoc
    \/ AddSecondary
    \/ StopSteadySecondary
    \/ WaitForHangAfterDataCloning
    \/ InsertDocs
    \/ ResumeInitialSync
    \/ WaitForHangBeforeFinish
    \/ CheckUpdatePosition
    \/ WriteW2
    \/ WriteWMaj
    \/ CheckStatus
    \/ TurnOffHangBeforeFinish
    \/ AwaitSecondaryNodes
    \/ WriteWillSucceed
    \/ RestartSteadySecondary
    \/ StopSet

NextInitialSync == ReplSetStep \/ TestStep

SpecInitialSync == Init /\ [][NextInitialSync]_vars

\* The nodes that are up keep running and the test runs on.
FairInitialSync == WF_vars(ReplSetStep) /\ WF_vars(TestStep)

FairSpecInitialSync == SpecInitialSync /\ FairInitialSync

NextVersions == MoveChunk \/ SplitChunk \/ MergeChunks

SpecVersions == InitVersions /\ [][NextVersions]_vars

NextCompare == \E a, b \in Versions : CompareVersions(a, b)

SpecCompare == Init /\ [][NextCompare]_vars

\* One router sending requests versioned on the database or the collection.
NextRouting ==
    \/ \E res \in RoutedResources, s \in Shards : NewRequest("router1", res, s)
    \/ \E r \in Routers : ValidateVersion(r)
    \/ \E r \in Routers : HandleStale(r)
    \/ \E n \in Nodes, res \in RoutedResources : FinishRefresh(n, res)
    \/ \E r \in Routers : Retry(r)
    \/ MovePrimary
    \/ \E c \in Chunks : ChunkMoved(c)

SpecRouting == Init /\ [][NextRouting]_vars

\* A request that is under way is eventually taken up by the node it waits
\* for.
FairRouting ==
    /\ \A r \in Routers :
          WF_vars(ValidateVersion(r)) /\ WF_vars(HandleStale(r)) /\ WF_vars(Retry(r))
    /\ \A n \in Nodes, res \in RoutedResources : WF_vars(FinishRefresh(n, res))

FairSpecRouting == SpecRouting /\ FairRouting

\* Two routers sending requests versioned on the collection while its chunk
\* moves.
NextRefresh ==
    \/ \E r \in Routers, s \in Shards : NewRequest(r, "db.coll1", s)
    \/ \E r \in Routers : ValidateVersion(r)
    \/ \E r \in Routers : HandleStale(r)
    \/ \E n \in Nodes : FinishRefresh(n, "db.coll1")
    \/ \E r \in Routers : Retry(r)
    \/ \E c \in Chunks : ChunkMoved(c)

SpecRefresh == Init /\ [][NextRefresh]_vars

\* ------------------------------------------------------------------------
\* Properties of the distributed lock
\* ------------------------------------------------------------------------

\* A step in which process o becomes the owner of r's lock document.
BecomesOwner(r, o) == LockDocument(r, o) \notin locks /\ LockDocument(r, o) \in locks'

\* A step in which o's acquire of r newly fails with LockBusy.
GetsLockBusy(r, o) == lockView[o][r] # "LockBusy" /\ lockView'[o][r] = "LockBusy"

\* C1: lock mutual exclusion. config.locks never holds more than one lock
\* document per resource name, and an acquire succeeds only on a free lock or
\* by overtaking expired holders: between two events that free the lock at
\* most one acquire succeeds.
C1_LockMutualExclusion ==
    /\ [](\A r \in Resources : Cardinality(LockDocsOf(r)) <= 1)
    /\ [][\A r \in Resources, o \in Processes :
            BecomesOwner(r, o) =>
                /\ \A h \in OtherHolders(r, o) : IsLockExpired(h)
                /\ LockDocsOf(r)' = {LockDocument(r, o)}]_vars

\* C1 witness: p1 owns a lock that p2 tried to acquire and was refused.
C1_Witness ==
    \E r \in Resources :
        /\ LockDocument(r, "p1") \in locks
        /\ lockView["p2"][r] = "LockBusy"

\* C2 as stated: an overtake needs the holder's ping age to exceed the
\* threshold, and an age within the threshold always gives LockBusy.
C2_OvertakeOnlyAboveThreshold ==
    [][\A r \in Resources, o \in Processes :
          BecomesOwner(r, o) =>
              \A h \in OtherHolders(r, o) : PingAge(h) > LockExpiration]_vars

\* C2 amended: an acquire of a lock held by another process succeeds only if
\* the holder's ping document is 15 minutes old or older, and it fails with
\* LockBusy exactly when some holder's ping is younger than 15 minutes.
C2_OvertakeAtThreshold ==
    [][\A r \in Resources, o \in Processes :
          /\ BecomesOwner(r, o) =>
                \A h \in OtherHolders(r, o) : PingAge(h) >= LockExpiration
          /\ GetsLockBusy(r, o) =>
                \E h \in OtherHolders(r, o) : PingAge(h) < LockExpiration
          /\ (\E h \in OtherHolders(r, o) : PingAge(h) < LockExpiration) =>
                (lockView[o][r] = "held" \/ lockView'[o][r] # "held")]_vars

\* C2 witness: p2 has overtaken a lock that p1 still believes it holds.
C2_Witness ==
    \E r \in Resources :
        /\ LockDocument(r, "p2") \in locks
        /\ lockView["p1"][r] = "held"

\* ------------------------------------------------------------------------
\* Properties of the live migration protocol
\* ------------------------------------------------------------------------

\* The commit of migration m on the config server is pending or has just
\* succeeded: the recipient has acknowledged _recvChunkCommit.
AtCommit(m) == migs[m].state \in {"RecipientCommit", "ConfigCommit"}

\* C3: a migration loses and duplicates no write. From the recipient's
\* acknowledgement of _recvChunkCommit to the end of the commit on the config
\* server, the recipient's documents of the chunk are the donor's documents
\* at the moment writes were suspended, the donor's documents have not
\* changed since, no modification is left queued and every modification that
\* was queued has been applied once.
C3_NoLostOrDuplicatedWrites ==
    \A m \in MigIds :
        AtCommit(m) =>
            /\ docs[migs[m].recipient][migs[m].chunk] = history.docsAtSuspend[m]
            /\ docs[migs[m].donor][migs[m].chunk] = history.docsAtSuspend[m]
            /\ modBuffer[m] = <<>>
            /\ history.applied[m] = history.queued[m]

\* C3 witness: the config server has committed a migration during whose
\* cloning the donor accepted two writes.
C3_Witness ==
    \E m \in MigIds :
        /\ migs[m].state = "ConfigCommit"
        /\ m \in history.committed
        /\ history.queued[m] = 2
        /\ docs[migs[m].recipient][migs[m].chunk] # [k \in Keys |-> "x"]

\* The migrations of chunk c whose moveChunk is running on shard s.
RunningOn(s, c) ==
    {m \in InFlight : migs[m].chunk = c /\ migs[m].donor = s /\ DonorRunning(m)}

\* A step in which caller u's moveChunk of chunk c returns from the registry.
Called(u, c) == handle[u] = 0 /\ result'[u] # result[u] /\ result'[u].chunk = c

\* C4: migration idempotence under retry. No chunk has two migrations in
\* flight; a moveChunk of a chunk whose migration is running on its donor
\* gets a handle on that migration and starts no other; a handle always
\* refers to a migration of the chunk asked for; and callers attached to one
\* migration are told the same outcome, which is how that migration ended.
C4_JoinSameMigration ==
    /\ [](\A c \in Chunks : Cardinality({m \in InFlight : migs[m].chunk = c}) <= 1)
    /\ [](\A u \in Callers : handle[u] # 0 => migs[handle[u]].chunk = result[u].chunk)
    /\ [](\A u, v \in Callers :
            (/\ result[u].mig = result[v].mig
             /\ result[u].mig # 0
             /\ result[u].outcome \in {"Committed", "Aborted"}
             /\ result[v].outcome \in {"Committed", "Aborted"})
            => /\ result[u].outcome = result[v].outcome
               /\ result[u].outcome = Outcome(result[u].mig))
    /\ [][\A u \in Callers, c \in Chunks :
            (Called(u, c) /\ RunningOn(owner[c], c) # {}) =>
                /\ handle'[u] \in RunningOn(owner[c], c)
                /\ migs' = migs]_vars

\* C4 witness: two callers were attached to one migration and both have been
\* told that it committed.
C4_Witness ==
    /\ result["u1"].mig # 0
    /\ result["u1"].mig = result["u2"].mig
    /\ result["u1"].outcome = "Committed"
    /\ result["u2"].outcome = "Committed"

\* C5: conflicting migrations. A shard's registry never holds more than one
\* migration, incoming or outgoing; a moveChunk whose donor has a migration
\* of another chunk in flight fails with ConflictingMigrationInProgress; and
\* a moveChunk that fails so changes nothing but the caller's result.
C5_ConflictingMigration ==
    /\ [](\A s \in Shards : Cardinality(registry[s]) <= 1)
    /\ [][\A u \in Callers, c \in Chunks :
            /\ (Called(u, c) /\ \E g \in registry[owner[c]] : g.chunk # c) =>
                    result'[u].outcome = "ConflictingMigrationInProgress"
            /\ (Called(u, c) /\ result'[u].outcome = "ConflictingMigrationInProgress") =>
                    /\ registry[owner[c]] # {}
                    /\ UNCHANGED <<registry, migs, cloneLocs, modBuffer,
                                   migrationCoordinators, handle>>
                    /\ UNCHANGED <<lockVars, routingVars, otherVars, configVars, dataVars, cleanupVars, history>>
                    /\ \A v \in Callers \ {u} : result'[v] = result[v]]_vars

\* C5 witness: u2's moveChunk of one chunk was refused while the migration of
\* the other chunk that u1 started is cloning.
C5_Witness ==
    /\ result["u2"].outcome = "ConflictingMigrationInProgress"
    /\ handle["u1"] # 0
    /\ migs[handle["u1"]].state = "Cloning"
    /\ migs[handle["u1"]].chunk # result["u2"].chunk

\* ------------------------------------------------------------------------
\* Properties of orphaned range deletion
\* ------------------------------------------------------------------------

\* The range deletion documents of migration m on shard s.
TasksOf(s, m) == {t \in rangeDeletions[s] : t.mig = m}

\* A step that ends migration m in state st.
Ends(m, st) == migs[m].state # st /\ migs'[m].state = st

\* A step in which a range deletion document that was ready leaves shard s.
ReadyTaskRemoved(s, t) == t \in rangeDeletions[s] /\ ~t.pending /\ t \notin rangeDeletions'[s]

\* C6: end-to-end scenario A (commit, no concurrent writes). The commit moves
\* the chunk from the donor to the recipient and increments the collection
\* version's major by exactly one. When the migration is done the chunk
\* belongs to the recipient, the donor's range deletion document is ready
\* and the recipient has none left; the recipient's never executed and the
\* recipient keeps the chunk's documents. A ready range deletion document is
\* only removed once it executed and no document of the chunk is left on
\* the shard, and the donor's ready range deletion document of a migration
\* that is done is eventually removed.
C6_ScenarioCommit ==
    /\ [][\A c \in Chunks :
            owner'[c] # owner[c] =>
                /\ \E m \in InFlight :
                      /\ migs[m].chunk = c /\ migs[m].state = "ConfigCommit"
                      /\ owner[c] = migs[m].donor /\ owner'[c] = migs[m].recipient
                /\ CollectionVersion(CollOf[c])'.major = CollectionVersion(CollOf[c]).major + 1
                /\ CollectionVersion(CollOf[c])'.minor = CollectionVersion(CollOf[c]).minor
                /\ CollectionVersion(CollOf[c])'.epoch = CollectionVersion(CollOf[c]).epoch]_vars
    /\ [][\A m \in MigIds :
            Ends(m, "Done") =>
                /\ m \in history.committed
                /\ owner'[migs[m].chunk] = migs[m].recipient
                /\ TasksOf(migs[m].donor, m)' = {RangeDeletionTask(m, FALSE)}
                /\ TasksOf(migs[m].recipient, m)' = {}]_vars
    /\ [](\A m \in MigIds :
            migs[m].state = "Done" =>
                /\ <<migs[m].recipient, m>> \notin history.executed
                /\ owner[migs[m].chunk] = migs[m].recipient =>
                      docs[migs[m].recipient][migs[m].chunk] = InitialDocs(migs[m].chunk))
    /\ [][\A s \in Shards : \A t \in rangeDeletions[s] :
            ReadyTaskRemoved(s, t) =>
                /\ <<s, t.mig>> \in history.executed
                /\ KeysPresent(s, t.chunk)' = {}]_vars
    /\ \A m \in MigIds :
            (migs[m].state = "Done" /\ TasksOf(migs[m].donor, m) # {}) ~>
                (migs[m].state = "Done" /\ TasksOf(migs[m].donor, m) = {})

\* C6 witness: a migration is done, the recipient owns the chunk at major
\* version 2 and holds its documents, the donor's range deletion document
\* has executed and is gone with every document of the chunk, and the
\* recipient has no range deletion document.
C6_Witness ==
    \E m \in MigIds :
        /\ migs[m].state = "Done"
        /\ owner[migs[m].chunk] = migs[m].recipient
        /\ chunkVersion[migs[m].chunk].major = 2
        /\ <<migs[m].donor, m>> \in history.executed
        /\ rangeDeletions[migs[m].donor] = {}
        /\ KeysPresent(migs[m].donor, migs[m].chunk) = {}
        /\ rangeDeletions[migs[m].recipient] = {}
        /\ docs[migs[m].recipient][migs[m].chunk] = InitialDocs(migs[m].chunk)

\* C7: end-to-end scenario B (abort in the critical section, before the
\* commit succeeds). The abort leaves the owner and every chunk version as
\* they were, deletes the donor's range deletion document and marks the
\* recipient's ready. The donor's document never executed, and no document
\* is ever removed from the shard that owns a chunk. The recipient's ready
\* document is only removed once it executed and deleted the chunk's
\* documents there, and it is eventually removed.
C7_ScenarioAbort ==
    /\ [][\A m \in MigIds :
            (Ends(m, "Aborted") /\ migs[m].state \in CriticalStates) =>
                /\ m \notin history.committed
                /\ owner' = owner
                /\ chunkVersion' = chunkVersion
                /\ owner[migs[m].chunk] = migs[m].donor
                /\ TasksOf(migs[m].donor, m)' = {}
                /\ TasksOf(migs[m].recipient, m)' = {RangeDeletionTask(m, FALSE)}]_vars
    /\ [](\A m \in MigIds :
            migs[m].state = "Aborted" => <<migs[m].donor, m>> \notin history.executed)
    /\ [][\A c \in Chunks : docs'[owner[c]][c] = docs[owner[c]][c]]_vars
    /\ [][\A m \in MigIds : \A t \in {RangeDeletionTask(m, FALSE)} :
            (migs[m].state = "Aborted" /\ ReadyTaskRemoved(migs[m].recipient, t)) =>
                /\ <<migs[m].recipient, m>> \in history.executed
                /\ KeysPresent(migs[m].recipient, migs[m].chunk)' = {}]_vars
    /\ \A m \in MigIds :
            (migs[m].state = "Aborted" /\ TasksOf(migs[m].recipient, m) # {}) ~>
                (migs[m].state = "Aborted" /\ TasksOf(migs[m].recipient, m) = {})

\* C7 witness: a migration was aborted in the critical section; the donor
\* still owns the chunk at major version 1 with all its documents and no
\* range deletion document, and the recipient's range deletion document has
\* executed and is gone with every cloned document.
C7_Witness ==
    \E m \in MigIds :
        /\ migs[m].state = "Aborted"
        /\ m \in history.critical
        /\ owner[migs[m].chunk] = migs[m].donor
        /\ chunkVersion[migs[m].chunk].major = 1
        /\ docs[migs[m].donor][migs[m].chunk] = InitialDocs(migs[m].chunk)
        /\ rangeDeletions[migs[m].donor] = {}
        /\ <<migs[m].recipient, m>> \in history.executed
        /\ rangeDeletions[migs[m].recipient] = {}
        /\ KeysPresent(migs[m].recipient, migs[m].chunk) = {}

\* C8: end-to-end scenario C. While a query that pinned a chunk's metadata
\* on a shard is still running, no document of that chunk is removed from
\* the shard, and the range deleter leaves its wait for queries only when
\* no such query is left.
C8_PinnedReadsBlockDeletion ==
    [][\A s \in Shards :
          /\ \A c \in Chunks :
                pins[s][c] > 0 => KeysPresent(s, c) \subseteq KeysPresent(s, c)'
          /\ (deleter[s].step = "waitForQueries" /\ deleter'[s].step # "waitForQueries") =>
                pins[s][deleter[s].task.chunk] = 0]_vars

\* C8 witness: the migration is done and the donor's range deletion document
\* is ready and taken up by the deleter, which waits for a query that still
\* pins the chunk on the donor.
C8_Witness ==
    \E m \in MigIds :
        /\ migs[m].state = "Done"
        /\ deleter[migs[m].donor].step = "waitForQueries"
        /\ deleter[migs[m].donor].task = RangeDeletionTask(m, FALSE)
        /\ pins[migs[m].donor][migs[m].chunk] > 0
        /\ KeysPresent(migs[m].donor, migs[m].chunk) # {}

\* ------------------------------------------------------------------------
\* Properties of the versioning protocol
\* ------------------------------------------------------------------------

\* C9: staleness retry bound. No request is ever answered as stale more often
\* than the maximum; the answer that reaches the maximum ends the request
\* with StaleConfigRetriesExhausted, and only such a request ends so, every
\* one of its attempts having been stale; and every request that is sent
\* ends, accepted or with that error.
C9_StaleRetryBound ==
    /\ [](\A r \in Routers : req[r].stales <= MaxStaleRetries)
    /\ [](\A r \in Routers :
            req[r].pc = "done" =>
                /\ req[r].outcome \in {"Accepted", "StaleConfigRetriesExhausted"}
                /\ req[r].outcome = "StaleConfigRetriesExhausted" <=>
                      (req[r].stales = MaxStaleRetries /\ req[r].attempts = req[r].stales))
    /\ [][\A r \in Routers :
            (req[r].pc = "stale" /\ req[r].stales + 1 = MaxStaleRetries /\ req'[r] # req[r]) =>
                /\ req'[r].pc = "done"
                /\ req'[r].outcome = "StaleConfigRetriesExhausted"]_vars
    /\ \A r \in Routers : (req[r].pc = "sent") ~> (req[r].pc = "done")

\* C9 witness: a request for the collection was answered StaleShardVersion on
\* each of its attempts and has ended with StaleConfigRetriesExhausted.
C9_Witness ==
    \E r \in Routers :
        /\ req[r].pc = "done"
        /\ req[r].res = "db.coll1"
        /\ req[r].outcome = "StaleConfigRetriesExhausted"
        /\ req[r].stales = MaxStaleRetries
        /\ req[r].attempts = MaxStaleRetries

\* ------------------------------------------------------------------------
\* Properties of crash recovery
\* ------------------------------------------------------------------------

\* C10: point of no return. A migration whose commit succeeded on the config
\* server is never aborted, whatever happens later (failures, crashes,
\* recoveries): it stays as it is until it is done; a migration is aborted
\* only while its commit has not succeeded; and the owner of a chunk only
\* ever changes by the commit of a migration of that chunk to its recipient.
C10_PointOfNoReturn ==
    /\ [](\A m \in history.committed : migs[m].state \in {"ConfigCommit", "Done"})
    /\ [][\A m \in MigIds :
            /\ Ends(m, "Aborted") => (m \notin history.committed /\ ~CommitObserved(m))
            /\ m \in history.committed => migs'[m].state \in {migs[m].state, "Done"}]_vars
    /\ [][\A c \in Chunks :
            owner'[c] # owner[c] =>
                \E m \in InFlight :
                    /\ migs[m].chunk = c
                    /\ m \notin history.committed /\ m \in history'.committed
                    /\ owner'[c] = migs[m].recipient]_vars

\* C10 witness: the donor crashed after the commit succeeded and before it
\* completed the migration, which is waiting to be recovered.
C10_Witness ==
    \E m \in history.committed :
        /\ migs[m].state = "ConfigCommit"
        /\ ~DonorRunning(m)
        /\ CommitObserved(m)

\* ------------------------------------------------------------------------
\* Properties of the version transitions
\* ------------------------------------------------------------------------

\* A step that applies operation op to the chunk.
LastOp(op) == ops' = Append(ops, op)

\* C11: moving a chunk increments the major version of its chunk version by
\* exactly one and leaves the minor version and the epoch as they are, so
\* the version after the move is newer than the one before.
C11_MoveIncrementsMajor ==
    [][LastOp("move") =>
          /\ chunkVer'.major = chunkVer.major + 1
          /\ chunkVer'.minor = chunkVer.minor
          /\ chunkVer'.epoch = chunkVer.epoch
          /\ VersionOlder(chunkVer, chunkVer')]_vars

\* C11 witness: a chunk with a minor version other than zero has moved.
C11_Witness ==
    /\ ops = <<"move">>
    /\ start.minor > 0
    /\ chunkVer = ChunkVersion(start.major + 1, start.minor, start.epoch)

\* C12: two moves of a chunk that started at version 1|0|E leave it at
\* version 3|0|E.
C12_MoveTwice ==
    \A e \in Epochs :
        (start = ChunkVersion(1, 0, e) /\ ops = <<"move", "move">>) =>
            chunkVer = ChunkVersion(3, 0, e)

\* C12 witness: the chunk that started at 1|0|E1 has moved twice.
C12_Witness ==
    /\ start = ChunkVersion(1, 0, "E1")
    /\ ops = <<"move", "move">>
    /\ chunkVer.major = 3

\* C13: a split always increments the minor version by one and keeps the
\* epoch; it increments the major version (by one) exactly when the shard
\* version equals the collection version, so a split on a shard whose
\* version is older than the collection version changes the minor version
\* only: the chunk at 2|0|E on a shard at 2|0|E of a collection at 3|0|E
\* gets 2|1|E.
C13_SplitTransition ==
    [][LastOp("split") =>
          /\ chunkVer'.minor = chunkVer.minor + 1
          /\ chunkVer'.epoch = chunkVer.epoch
          /\ chunkVer'.major \in {chunkVer.major, chunkVer.major + 1}
          /\ chunkVer'.major = chunkVer.major + 1 <=> shardVer = collVer
          /\ VersionOlder(shardVer, collVer) => chunkVer'.major = chunkVer.major
          /\ \A e \in Epochs :
                (/\ chunkVer = ChunkVersion(2, 0, e)
                 /\ shardVer = ChunkVersion(2, 0, e)
                 /\ collVer = ChunkVersion(3, 0, e))
                => chunkVer' = ChunkVersion(2, 1, e)]_vars

\* C13 witness: the chunk at 2|0|E1 was split on a shard whose version was
\* older than the collection version.
C13_Witness ==
    /\ start = ChunkVersion(2, 0, "E1")
    /\ ops = <<"split">>
    /\ chunkVer = ChunkVersion(2, 1, "E1")

\* A split of the chunk at 3|0|E on a shard at 3|0|E of a collection at
\* 3|0|E.
SplitAtThree(e) ==
    /\ LastOp("split")
    /\ chunkVer = ChunkVersion(3, 0, e)
    /\ shardVer = ChunkVersion(3, 0, e)
    /\ collVer = ChunkVersion(3, 0, e)

\* C14 as stated: a split with shard version = collection version = 3|0|E
\* gives 4|0|E.
C14_SplitYieldsFourZero ==
    [][\A e \in Epochs : SplitAtThree(e) => chunkVer' = ChunkVersion(4, 0, e)]_vars

\* C14: a split with shard version = collection version = 3|0|E gives
\* 4|1|E: the major version is incremented and so is the minor version.
C14_SplitYieldsFourOne ==
    [][\A e \in Epochs : SplitAtThree(e) => chunkVer' = ChunkVersion(4, 1, e)]_vars

\* C14 witness: the chunk at 3|0|E1 was split and its major version was
\* incremented.
C14_Witness ==
    /\ start = ChunkVersion(3, 0, "E1")
    /\ ops = <<"split">>
    /\ chunkVer.major = 4

\* The result of comparing b with a, given the result of comparing a with b.
Flipped(r) == IF r = "older" THEN "newer" ELSE IF r = "newer" THEN "older" ELSE r

\* C15: comparing two versions of one epoch gives older, equal or newer, by
\* major version first and minor version next: equal only for the same
\* version, the opposite result when the two are exchanged, and older than
\* whatever the second is older than; comparing two versions of different
\* epochs gives incomparable.
C15_CompareTotalOrder ==
    LET a == compared.a
        b == compared.b
        r == compared.result
    IN  /\ a.epoch # b.epoch => r = "incomparable"
        /\ a.epoch = b.epoch =>
              /\ r \in {"older", "equal", "newer"}
              /\ r = "equal" <=> a = b
              /\ r = "older" <=>
                    (a.major < b.major \/ (a.major = b.major /\ a.minor < b.minor))
              /\ r = "newer" <=>
                    (a.major > b.major \/ (a.major = b.major /\ a.minor > b.minor))
        /\ Compare(b, a) = Flipped(r)
        /\ \A c \in Versions :
              (r = "older" /\ Compare(b, c) = "older") => Compare(a, c) = "older"

\* C15 witness: two versions of one epoch and one major version were
\* compared, the first having the lower minor version.
C15_Witness ==
    /\ compared.result = "older"
    /\ compared.a.major = compared.b.major
    /\ compared.a.minor < compared.b.minor

\* ------------------------------------------------------------------------
\* Properties of writes protected by a distributed lock
\* ------------------------------------------------------------------------

\* A step in which the config server accepts a protected write of o for r.
Accepts(r, o) == protected'[r] # protected[r] /\ protected'[r].writer = o

\* A step in which o learns that its lock on r was overtaken.
LearnsOvertaken(r, o) == lockView[o][r] # "overtaken" /\ lockView'[o][r] = "overtaken"

\* C16: the config server accepts a protected write only from the process
\* that the lock document names; a process whose lock is gone while it still
\* believes it holds it gets its write rejected, and learns so only then;
\* and two processes get writes accepted for one resource one after the
\* other only if the lock document changed in between.
C16_LeaseTokenValidated ==
    [][\A r \in Resources, o \in Processes :
          /\ Accepts(r, o) => (LockDocument(r, o) \in locks /\ lockView[o][r] = "held")
          /\ (lockView[o][r] = "held" /\ LockDocument(r, o) \notin locks) =>
                (protected'[r] = protected[r] \/ protected'[r].writer # o)
          /\ LearnsOvertaken(r, o) =>
                /\ lockView[o][r] = "held"
                /\ LockDocument(r, o) \notin locks
                /\ protected' = protected
          /\ (Accepts(r, o) /\ protected[r].writer \notin {"none", o}) =>
                protected[r].docs # LockDocsOf(r)]_vars

\* C16 witness: p1 has had a write accepted, was overtaken by p2 while it
\* still believed it held the lock, and has had its next write rejected; p2,
\* which now owns the lock, has had a write accepted.
C16_Witness ==
    \E r \in Resources :
        /\ lockView["p1"][r] = "overtaken"
        /\ LockDocument(r, "p2") \in locks
        /\ protected[r].writer = "p2"
        /\ protected[r].seq = 2

\* ------------------------------------------------------------------------
\* Properties of the initial sync test
\* ------------------------------------------------------------------------

\* C17: a node in initial sync does not report replication progress. While
\* the added node is in initial sync it has sent no replSetUpdatePosition
\* command and the primary, whatever heartbeats it received, knows null
\* optimes of it; and the node is in initial sync, with operations applied,
\* whenever the test checks this.
C17_NoProgressDuringInitialSync ==
    /\ InInitialSync(Secondary) =>
          /\ numUpdatePosition = 0
          /\ primaryView[Secondary].optime = nullOpTime
          /\ primaryView[Secondary].optimeDurable = nullOpTime
    /\ testPc \in {"checkUpdatePosition", "writeW2", "writeWMaj", "checkStatus"} =>
          /\ InInitialSync(Secondary)
          /\ members[Secondary].appliedOpTime > nullOpTime

\* C17 witness: the test reads the status while the added node, still in
\* initial sync, has applied and made durable what it fetched; the primary
\* has received a heartbeat response from it and knows null optimes.
C17_Witness ==
    /\ testPc = "checkStatus"
    /\ InInitialSync(Secondary)
    /\ members[Secondary].appliedOpTime > nullOpTime
    /\ members[Secondary].durableOpTime > nullOpTime
    /\ primaryView[Secondary] = MemberView(nullOpTime, nullOpTime, TRUE)
    /\ numUpdatePosition = 0

\* The writes the test expects to time out.
ShouldFail == {"writeResW2", "writeResWMaj"}

\* C18: a node in initial sync takes no part in acknowledging writes. The
\* writes with w: 2 and w: "majority" that the test does while only the
\* primary and the node in initial sync are up never return without a write
\* concern error; while the primary waits for one of them, it has applied
\* the write and the write concern is not satisfied; and the commit point of
\* the node in initial sync stays null.
C18_NoAcknowledgementDuringInitialSync ==
    /\ \A name \in ShouldFail : writeRes[name] \in {"none", "timedout"}
    /\ pendingWrite.name \in ShouldFail =>
          /\ {n \in ReplNodes : Up(n)} = {Primary, Secondary}
          /\ InInitialSync(Secondary)
          /\ members[Primary].appliedOpTime >= pendingWrite.optime
          /\ ~Satisfied(pendingWrite)
    /\ InInitialSync(Secondary) => members[Secondary].lastCommittedOpTime = nullOpTime

\* C18 witness: both writes have timed out, the primary has applied them,
\* and the added node is still in initial sync with a null commit point.
C18_Witness ==
    /\ writeRes["writeResW2"] = "timedout"
    /\ writeRes["writeResWMaj"] = "timedout"
    /\ members[Primary].appliedOpTime = 4 + NumInserted
    /\ InInitialSync(Secondary)
    /\ members[Secondary].lastCommittedOpTime = nullOpTime

\* The phases in which initial sync has applied what it had to.
AppliedPhases == {"initialSyncHangBeforeFinish", "done"}

\* C19: once the added node is a secondary it reports progress again. The
\* last write of the test, with w: 2, is acknowledged, and when it is, the
\* added node is a secondary that the primary knows to have applied the
\* write, while the other secondary is down without it. When initial sync
\* has applied what it had to, it has applied every operation from the one
\* the primary had applied last when the sync began up to the one it stops
\* at: at least one more than the documents inserted meanwhile.
C19_ReportsAfterInitialSync ==
    /\ [](writeRes["willSucceed"] \in {"none", "ok"})
    /\ [][(writeRes["willSucceed"] = "none" /\ writeRes'["willSucceed"] = "ok") =>
            /\ members[Secondary].state = "SECONDARY"
            /\ primaryView[Secondary].optime >= pendingWrite.optime
            /\ members[SteadySecondary].state = "DOWN"
            /\ primaryView[SteadySecondary].optime < pendingWrite.optime]_vars
    /\ [](initialSync.phase \in AppliedPhases =>
            /\ initialSync.appliedOps =
                  (initialSync.stopTimestamp - initialSync.beginApplying) + 1
            /\ initialSync.appliedOps >= NumInserted + 1
            /\ members[Secondary].appliedOpTime >= initialSync.stopTimestamp)
    /\ (testPc = "writeWillSucceed") ~> (writeRes["willSucceed"] = "ok")

\* C19 witness: the last write was acknowledged after the added node, now a
\* secondary, reported with replSetUpdatePosition that it had applied it.
C19_Witness ==
    /\ writeRes["willSucceed"] = "ok"
    /\ testPc = "restart"
    /\ members[Secondary].state = "SECONDARY"
    /\ numUpdatePosition > 0
    /\ primaryView[Secondary].optime = members[Primary].appliedOpTime
    /\ initialSync.appliedOps = NumInserted + 1

\* ------------------------------------------------------------------------
\* Properties of the order of the migration's steps
\* ------------------------------------------------------------------------

\* The steps of a migration that succeeds, in the order of the protocol.
MigrationStates ==
    <<"Start", "Cloning", "TransferringMods", "WaitingSteadyState",
      "CriticalSection", "RecipientCommit", "ConfigCommit", "Done">>

Position(state) == CHOOSE i \in 1..Len(MigrationStates) : MigrationStates[i] = state

\* A step of the donor, running or restarted, that aborts migration m.
AbortedNext(m) == (Abort(m) \/ Recover(m)) /\ migs'[m].state = "Aborted"

\* C20: the states of a migration are visited in order. A migration begins
\* in Start; every later change of its state is to the next state of Start,
\* Cloning, TransferringMods, WaitingSteadyState, CriticalSection,
\* RecipientCommit, ConfigCommit, Done, or to Aborted; the state of a
\* migration that is Done or Aborted never changes; and in whichever state
\* an unfinished migration is, as long as the config server has not
\* committed it, a step that aborts it is possible.
C20_StatesInOrder ==
    /\ [][\A m \in MigIds : migs'[m].state # migs[m].state =>
            /\ migs[m].state \notin Terminal
            /\ IF migs[m].state = "None"
                 THEN migs'[m].state = "Start"
                 ELSE \/ migs'[m].state = "Aborted"
                      \/ Position(migs'[m].state) = Position(migs[m].state) + 1]_vars
    /\ [](\A m \in InFlight : ~CommitObserved(m) => ENABLED AbortedNext(m))

\* C20 witness: one migration went through every state to Done, and another
\* has reached ConfigCommit, the last state before Done, and can still be
\* aborted.
C20_Witness ==
    \E m1, m2 \in MigIds :
        /\ migs[m1].state = "Done"
        /\ migs[m2].state = "ConfigCommit"
        /\ ENABLED AbortedNext(m2)

\* ------------------------------------------------------------------------
\* Properties of crash recovery, of the critical section and of the
\* range deletion documents
\* ------------------------------------------------------------------------

\* A step in which the restarted donor resolves migration m.
Recovers(m) == m \notin history.recovered /\ m \in history'.recovered

\* The donor of migration m went down while m was in its critical section,
\* and m has not been resolved.
Interrupted(m) == m \in InFlight /\ ~DonorRunning(m) /\ migs[m].state \in CriticalStates

InCriticalSection(c) ==
    {m \in MigIds : migs[m].chunk = c /\
        migs[m].state \in {"CriticalSection", "RecipientCommit", "ConfigCommit"}}

\* The migrations of chunk c whose commit has been sent to the config server
\* and that have not ended.
CommitSent(c) == {m \in MigIds : migs[m].chunk = c /\ migs[m].state = "ConfigCommit"}

\* A step in which a client write to chunk c is accepted.
WriteAccepted(c) == nWrites' = nWrites + 1 /\ docs'[owner[c]][c] # docs[owner[c]][c]

\* A step in which a query of chunk c starts on shard s.
ReadStarted(s, c) == pins'[s][c] = pins[s][c] + 1

\* A step in which the config server commits a migration of chunk c.
Commits(c) == \E m \in MigIds : migs[m].chunk = c /\ m \notin history.committed
                                   /\ m \in history'.committed

\* C22: critical-section gating. From the entry into the critical section
\* until the migration is done or aborted no write to the chunk is accepted
\* or could be. Queries of the chunk on the donor can still start in
\* CriticalSection and RecipientCommit (up to the number of queries the
\* model lets run) and none starts or could start once the commit has been
\* sent. The config server commits a migration only in ConfigCommit, when
\* neither a write nor a new query of the chunk could be accepted.
C22_CriticalSectionGating ==
    /\ [][\A c \in Chunks :
            /\ WriteAccepted(c) => InCriticalSection(c) = {}
            /\ (\E s \in Shards : ReadStarted(s, c)) => CommitSent(c) = {}
            /\ Commits(c) =>
                  /\ CommitSent(c) # {}
                  /\ \A k \in Keys, v \in Values \cup {NoDoc} : ~ENABLED Write(c, k, v)
                  /\ \A s \in Shards : ~ENABLED StartRead(s, c)]_vars
    /\ [](\A c \in Chunks :
            InCriticalSection(c) # {} =>
                \A k \in Keys, v \in Values \cup {NoDoc} : ~ENABLED Write(c, k, v))
    /\ [](\A m \in MigIds :
            /\ (migs[m].state \in {"CriticalSection", "RecipientCommit"}
                  /\ pins[migs[m].donor][migs[m].chunk] < MaxReaders) =>
                      ENABLED StartRead(migs[m].donor, migs[m].chunk)
            /\ migs[m].state = "ConfigCommit" =>
                  \A s \in Shards : ~ENABLED StartRead(s, migs[m].chunk))

\* C22 witness: the config server has committed a migration during whose
\* cloning a write was queued; a query that started on the donor before the
\* commit was sent is still running, and the shards could accept another
\* write were it not for the critical section.
C22_Witness ==
    \E m \in MigIds :
        /\ migs[m].state = "ConfigCommit"
        /\ m \in history.committed
        /\ history.queued[m] > 0
        /\ pins[migs[m].donor][migs[m].chunk] > 0
        /\ nWrites < MaxWrites

\* The range deletion documents on shard s for the range of chunk c.
TasksOn(s, c) == {t \in rangeDeletions[s] : t.chunk = c}

\* The migrations whose recipient is cloning, or has cloned, the chunk.
Receiving == {m \in InFlight : migs[m].state # "Start"}

\* A step in which the recipient of migration m begins the clone phase.
BeginsClone(m) == migs[m].state = "Start" /\ migs'[m].state = "Cloning"

\* C23: the recipient waits for overlapping range deletions. The recipient
\* begins the clone phase only when it has no range deletion document for
\* the chunk's range, and cannot begin it while it has one. From then until
\* the migration ends its only range deletion document for the range is the
\* migration's own, pending, and its range deleter is not working on the
\* range: the recipient's documents of the chunk are only removed, while the
\* migration runs, by a modification transferred from the donor.
C23_RecipientWaitsForRangeDeletion ==
    /\ [][\A m \in MigIds :
            BeginsClone(m) =>
                /\ TasksOn(migs[m].recipient, migs[m].chunk) = {}
                /\ deleter[migs[m].recipient].task.chunk # migs[m].chunk]_vars
    /\ [](\A m \in MigIds :
            (migs[m].state = "Start" /\ TasksOn(migs[m].recipient, migs[m].chunk) # {}) =>
                ~ENABLED RecvChunkStart(m))
    /\ [](\A m \in Receiving :
            /\ TasksOn(migs[m].recipient, migs[m].chunk) = {RangeDeletionTask(m, TRUE)}
            /\ deleter[migs[m].recipient].task.chunk # migs[m].chunk)
    /\ [][\A m \in Receiving : \A k \in Keys :
            (docs[migs[m].recipient][migs[m].chunk][k] # NoDoc
               /\ docs'[migs[m].recipient][migs[m].chunk][k] = NoDoc) =>
                  modBuffer'[m] # modBuffer[m]]_vars

\* C23 witness: a migration is cloning a chunk to a shard on which an
\* earlier migration of the same chunk was aborted; that migration's range
\* deletion document has executed there and is gone.
C23_Witness ==
    \E m1, m2 \in MigIds :
        /\ migs[m1].state = "Aborted"
        /\ migs[m2].state = "Cloning"
        /\ migs[m1].chunk = migs[m2].chunk
        /\ migs[m1].recipient = migs[m2].recipient
        /\ <<migs[m1].recipient, m1>> \in history.executed
        /\ cloneLocs[m2] # {}

\* The range deletion document of migration m with its pending flag set.
PendingTask(m) == [chunk |-> migs[m].chunk, mig |-> m, pending |-> TRUE]

\* A step in which a document of migration m's chunk is transferred: the
\* recipient stores a document of the chunk, or its documents of the chunk
\* change as modifications leave the donor's queue.
Transfers(m) ==
    /\ m \in InFlight
    /\ docs'[migs[m].recipient][migs[m].chunk] # docs[migs[m].recipient][migs[m].chunk]
    /\ \/ modBuffer'[m] # modBuffer[m]
       \/ \E k \in Keys :
             docs'[migs[m].recipient][migs[m].chunk][k]
                 \notin {NoDoc, docs[migs[m].recipient][migs[m].chunk][k]}

\* C24: what is persisted before documents move. The recipient begins the
\* clone phase only after the donor wrote the migration coordinator document
\* and its own range deletion document, pending. Whenever a document of the
\* chunk is transferred, and as long as the recipient is cloning or has
\* cloned and the migration has not ended, the donor has the coordinator
\* document and donor and recipient each have their range deletion document
\* with the pending flag set. The range deleter only ever takes up, and only
\* ever works on, a range deletion document that is stored with the pending
\* flag cleared, and a document that was taken up is never pending again.
C24_PersistedBeforeTransfer ==
    /\ [][\A m \in MigIds :
            BeginsClone(m) =>
                /\ CoordinatorDocsOf(m) # {}
                /\ PendingTask(m) \in rangeDeletions[migs[m].donor]
                /\ PendingTask(m) \in rangeDeletions'[migs[m].recipient]
                /\ docs[migs[m].recipient][migs[m].chunk] = [k \in Keys |-> NoDoc]]_vars
    /\ [][\A m \in MigIds :
            Transfers(m) =>
                /\ CoordinatorDocsOf(m) # {}
                /\ PendingTask(m) \in rangeDeletions[migs[m].donor]
                /\ PendingTask(m) \in rangeDeletions[migs[m].recipient]]_vars
    /\ [](\A m \in Receiving :
            /\ CoordinatorDocsOf(m) # {}
            /\ PendingTask(m) \in rangeDeletions[migs[m].donor]
            /\ PendingTask(m) \in rangeDeletions[migs[m].recipient])
    /\ [](\A s \in Shards :
            deleter[s].step # "idle" =>
                /\ ~deleter[s].task.pending
                /\ deleter[s].task \in rangeDeletions[s])
    /\ [](\A s \in Shards : \A t \in rangeDeletions[s] :
            t.pending => <<s, t.mig>> \notin history.executed)

\* C24 witness: the recipient has cloned documents of the chunk and is
\* transferring modifications; the coordinator document and both range
\* deletion documents, pending, are stored and neither has executed.
C24_Witness ==
    \E m \in MigIds :
        /\ migs[m].state = "TransferringMods"
        /\ KeysPresent(migs[m].recipient, migs[m].chunk) # {}
        /\ CoordinatorDocsOf(m) # {}
        /\ PendingTask(m) \in rangeDeletions[migs[m].donor]
        /\ PendingTask(m) \in rangeDeletions[migs[m].recipient]
        /\ <<migs[m].donor, m>> \notin history.executed
        /\ <<migs[m].recipient, m>> \notin history.executed

\* The range deleter of shard s goes from step a to step b.
DeleterGoes(s, a, b) == deleter[s].step = a /\ deleter'[s].step = b

\* The keys of chunk c whose documents a step removes from shard s.
Removed(s, c) == KeysPresent(s, c) \ KeysPresent(s, c)'

\* The range deleter of shard s lost the range it was working on, and the
\* range deletion document is still stored.
Restarted(s) ==
    /\ deleter[s].step # "idle" /\ deleter'[s].step = "idle"
    /\ deleter[s].task \in rangeDeletions'[s]

\* C25: a range that is ready is deleted in a fixed order. The range deleter
\* takes up a range deletion document that is stored and ready, waits until
\* no query pins the chunk on the shard, then waits the delay, then deletes
\* the documents, a batch at a time and only in that step, and removes the
\* range deletion document only when no document of the chunk is left; it
\* leaves this order only when the shard restarts. A restart loses nothing
\* that is stored: the document is still there, ready, and the range deleter
\* can take it up again. Every range deletion document that is ready is
\* eventually removed.
C25_RangeDeletionOrder ==
    /\ [][\A s \in Shards :
            deleter'[s].step # deleter[s].step =>
                \/ /\ DeleterGoes(s, "idle", "waitForQueries")
                   /\ deleter'[s].task \in rangeDeletions[s]
                   /\ ~deleter'[s].task.pending
                \/ /\ DeleterGoes(s, "waitForQueries", "waitDelay")
                   /\ pins[s][deleter[s].task.chunk] = 0
                   /\ deleter'[s].task = deleter[s].task
                \/ /\ DeleterGoes(s, "waitDelay", "deleting")
                   /\ deleter'[s].task = deleter[s].task
                \/ /\ DeleterGoes(s, "deleting", "idle")
                   /\ KeysPresent(s, deleter[s].task.chunk) = {}
                   /\ rangeDeletions'[s] = rangeDeletions[s] \ {deleter[s].task}
                \/ Restarted(s)]_vars
    /\ [][\A s \in Shards : \A c \in Chunks :
            Removed(s, c) # {} =>
                /\ deleter[s].step = "deleting" /\ deleter'[s].step = "deleting"
                /\ deleter[s].task.chunk = c
                /\ deleter[s].task \in rangeDeletions'[s]
                /\ Cardinality(Removed(s, c)) <= DeleteBatchSize]_vars
    /\ [][\A s \in Shards :
            Restarted(s) =>
                /\ rangeDeletions' = rangeDeletions
                /\ docs' = docs]_vars
    /\ [](\A s \in Shards : \A t \in rangeDeletions[s] :
            (~t.pending /\ deleter[s].step = "idle") => ENABLED StartDeletion(s, t))
    /\ \A s \in Shards, m \in MigIds :
            ([chunk |-> "c1", mig |-> m, pending |-> FALSE] \in rangeDeletions[s]) ~>
                (TasksOf(s, m) = {})

\* C25 witness: a shard restarted while its range deleter was deleting the
\* documents of a range: one document is already deleted, the range
\* deletion document is still stored, ready, and the range deleter has not
\* taken it up again.
C25_Witness ==
    \E s \in Shards : \E t \in rangeDeletions[s] :
        /\ ~t.pending
        /\ migs[t.mig].state = "Done" /\ migs[t.mig].donor = s
        /\ <<s, t.mig>> \in history.executed
        /\ deleter[s].step = "idle"
        /\ Cardinality(KeysPresent(s, t.chunk)) = 1

\* ------------------------------------------------------------------------
\* Properties of the refresh and of the retry after a version mismatch
\* ------------------------------------------------------------------------

\* The routers whose request waits for node n to refresh resource res.
WaitingFor(n, res) ==
    {r \in Routers : /\ req[r].pc = "refreshing"
                     /\ req[r].refresher = n
                     /\ req[r].res = res}

\* The same two sets after a step.
RefreshesAfter(n, res) == {f \in refresh'[n] : f.res = res}

WaitingAfter(n, res) ==
    {r \in Routers : /\ req'[r].pc = "refreshing"
                     /\ req'[r].refresher = n
                     /\ req'[r].res = res}

\* A step in which router r's request, answered as stale, starts to wait for
\* a refresh.
AwaitsRefresh(r) == req[r].pc = "stale" /\ req'[r].pc = "refreshing"

\* C26: single-flight refresh. No node ever has more than one refresh of a
\* resource in flight. A request that needs a resource refreshed on a node
\* starts a refresh there only if none of that resource is in flight, and
\* joins the one in flight otherwise; it is retried only when no refresh of
\* the resource is in flight on that node any more. When the refresh ends,
\* the node caches the config server's version and every request that waited
\* for it is still waiting: they all get that one result.
C26_SingleFlightRefresh ==
    /\ [](\A n \in Nodes, res \in RoutedResources : Cardinality(RefreshesOf(n, res)) <= 1)
    /\ [][\A r \in Routers :
            AwaitsRefresh(r) =>
                /\ Cardinality(RefreshesAfter(req'[r].refresher, req[r].res)) = 1
                /\ RefreshesOf(req'[r].refresher, req[r].res) # {} => refresh' = refresh
                /\ r \in WaitingAfter(req'[r].refresher, req[r].res)]_vars
    /\ [][\A r \in Routers :
            (req[r].pc = "refreshing" /\ req'[r] # req[r]) =>
                /\ RefreshesOf(req[r].refresher, req[r].res) = {}
                /\ req'[r].pc = "sent"]_vars
    /\ [][\A n \in Nodes, res \in RoutedResources :
            (RefreshesOf(n, res) # {} /\ RefreshesAfter(n, res) = {}) =>
                /\ cache'[n][res] = Authoritative(res)
                /\ WaitingAfter(n, res) = WaitingFor(n, res)
                /\ WaitingFor(n, res) # {}]_vars

\* C26 witness: the requests of both routers were answered as stale by the
\* same shard, whose version is the older one, and both wait for the one
\* refresh of the collection in flight on that shard.
C26_Witness ==
    \E s \in Shards :
        /\ WaitingFor(s, "db.coll1") = Routers
        /\ Cardinality(RefreshesOf(s, "db.coll1")) = 1

\* A step in which router r retries its request after the refresh.
Retried(r) == req[r].pc = "refreshing" /\ req'[r].pc = "sent"

\* A step in which the remote node answers router r's request.
Validated(r) == req[r].pc = "sent" /\ req'[r] # req[r]

\* The side of router r's request q that did not refresh.
OtherSide(r, q) == IF q.refresher = r THEN q.target ELSE r

\* No placement has changed since request q was first answered as stale.
NoChangeSince(q) == nChanges = q.since

\* On a version mismatch one of the two versions is the older one, and the
\* node holding it is the one that refreshes; the request is retried only
\* after that refresh. If the remote node was older, it now caches a newer
\* version than it reported and the request is retried with the version it
\* was sent with; if the origin was older, the request is retried with the
\* newer version the origin caches now. A request carrying the version the
\* remote node caches is accepted, and no refresh starts and no cache
\* changes in that step.
OlderSideRefreshes ==
    /\ [][\A r \in Routers :
            AwaitsRefresh(r) =>
                LET q == req[r]
                IN  /\ Older(q.res, q.remote, q.version) \/ Older(q.res, q.version, q.remote)
                    /\ Older(q.res, q.remote, q.version) => req'[r].refresher = q.target
                    /\ Older(q.res, q.version, q.remote) => req'[r].refresher = r
                    /\ RefreshesAfter(req'[r].refresher, q.res) # {}]_vars
    /\ [][\A r \in Routers :
            Retried(r) =>
                LET q == req[r]
                IN  /\ RefreshesOf(q.refresher, q.res) = {}
                    /\ q.refresher = q.target =>
                          /\ req'[r].version = q.version
                          /\ Older(q.res, q.remote, cache[q.target][q.res])
                    /\ q.refresher = r =>
                          /\ req'[r].version = cache[r][q.res]
                          /\ Older(q.res, q.version, req'[r].version)]_vars
    /\ [][\A r \in Routers :
            (Validated(r) /\ req[r].version = cache[req[r].target][req[r].res]) =>
                /\ req'[r].outcome = "Accepted"
                /\ refresh' = refresh
                /\ cache' = cache]_vars

\* C27 as stated: the older side refreshes before the retry, and when no
\* placement has changed since the mismatch, the retry after the one refresh
\* carries the version the remote node caches, so that it is accepted.
C27_ResolvedByOneRefresh ==
    /\ OlderSideRefreshes
    /\ [][\A r \in Routers :
            (Retried(r) /\ NoChangeSince(req[r])) =>
                req'[r].version = cache[req[r].target][req[r].res]]_vars

\* C27, amended: the older side refreshes before the retry, and when no
\* placement has changed since the request was first answered as stale, the
\* side that refreshed caches the config server's version; the first retry
\* is answered as stale again only if the other side caches an older version
\* than the config server's, and the retry after the second refresh carries
\* the version the remote node caches: the mismatch is resolved after at
\* most two refreshes, one on each side.
C27_ResolvedByTwoRefreshes ==
    /\ OlderSideRefreshes
    /\ [][\A r \in Routers :
            (Retried(r) /\ NoChangeSince(req[r])) =>
                LET q == req[r]
                IN  /\ cache[q.refresher][q.res] = Authoritative(q.res)
                    /\ req'[r].version # cache[q.target][q.res] =>
                          /\ q.stales = 1
                          /\ Older(q.res, cache[OtherSide(r, q)][q.res],
                                   Authoritative(q.res))
                    /\ q.stales >= 2 =>
                          req'[r].version = cache[q.target][q.res]]_vars

\* C27 witness: a request was answered as stale twice, the origin and the
\* remote node have each refreshed, no placement has changed since the first
\* answer, and the second retry carries the version the remote node caches.
C27_Witness ==
    \E r \in Routers :
        /\ req[r].pc = "sent"
        /\ req[r].stales = 2
        /\ NoChangeSince(req[r])
        /\ req[r].version = cache[req[r].target][req[r].res]

\* ------------------------------------------------------------------------
\* Properties of the end of a migration and of the ownership of chunks
\* ------------------------------------------------------------------------

\* The range deletion documents of migration m on shard s after a step.
TasksAfter(s, m) == {t \in rangeDeletions'[s] : t.mig = m}

\* Migration m is registered on some shard.
Registered(m) == \E s \in Shards : \E g \in registry[s] : g.mig = m

\* C28: every migration that starts ends, and leaves nothing registered. A
\* migration that has started eventually is Done or Aborted. While its donor
\* runs, the donor always has a next step: in every wait it can give up, and
\* giving up while it polls the recipient aborts the migration. In the step
\* that makes a migration Done or Aborted, its registrations made at the
\* start are removed from every shard's ActiveMigrationsRegistry and the
\* outcome is handed to the range deleter: after a commit the donor's range
\* deletion document is ready and the recipient's is deleted, after an abort
\* the recipient's is ready and the donor's is deleted. No finished
\* migration is registered anywhere.
C28_MigrationEndsAndReleases ==
    /\ \A m \in MigIds : (migs[m].state # "None") ~> (migs[m].state \in Terminal)
    /\ [](\A m \in InFlight : DonorRunning(m) => ENABLED DonorStep(m))
    /\ [](\A m \in InFlight :
            (DonorRunning(m) /\ migs[m].state = "WaitingSteadyState") =>
                ENABLED (Abort(m) /\ migs'[m].state = "Aborted"))
    /\ [][\A m \in MigIds :
            (Ends(m, "Done") \/ Ends(m, "Aborted")) =>
                LET kept == IF Ends(m, "Done") THEN migs[m].donor ELSE migs[m].recipient
                    dropped == IF Ends(m, "Done") THEN migs[m].recipient ELSE migs[m].donor
                IN  /\ \A s \in Shards : \A g \in registry'[s] : g.mig # m
                    /\ \A s \in Shards : registry'[s] \subseteq registry[s]
                    /\ TasksAfter(dropped, m) = {}
                    /\ \A t \in TasksAfter(kept, m) : ~t.pending
                    /\ Cardinality(TasksAfter(kept, m)) = Cardinality(TasksOf(kept, m))]_vars
    /\ [](\A m \in MigIds : migs[m].state \in Terminal => ~Registered(m))

\* C28 witness: one migration was committed and one was aborted after the
\* recipient had started to clone; neither is registered any more, the
\* donor's range deletion document of the first and the recipient's of the
\* second are ready.
C28_Witness ==
    \E m1, m2 \in MigIds :
        /\ migs[m1].state = "Done" /\ migs[m2].state = "Aborted"
        /\ ~Registered(m1) /\ ~Registered(m2)
        /\ \E t \in TasksOf(migs[m1].donor, m1) : ~t.pending
        /\ \E t \in TasksOf(migs[m2].recipient, m2) : ~t.pending

\* The shards that the config server records as owner of chunk c.
OwnersOf(c) == {s \in Shards : owner[c] = s}

\* A step in which the range deletion document of migration m on shard s
\* starts to execute.
Executes(s, m) == <<s, m>> \notin history.executed /\ <<s, m>> \in history'.executed

\* Of the donor's and the recipient's range deletion documents of migration
\* m, the ones that have executed.
ExecutedOf(m) == {s \in {migs[m].donor, migs[m].recipient} : <<s, m>> \in history.executed}

\* What holds of owners and range deletion after any steps, aborts, crashes
\* and recoveries: every chunk has exactly one owner on the config server; a
\* range deletion document that is ready, or that the range deleter is
\* working on, is never of a chunk the shard owns, and the range deleter only
\* removes documents of a chunk from a shard that does not own it; a range
\* deletion document that starts to execute is the donor's or the recipient's
\* of its migration, on the shard that does not own the chunk, the donor's
\* only after a commit and the recipient's only after an abort; never both
\* of one migration have executed.
OrphansOnly ==
    /\ [](\A c \in Chunks : Cardinality(OwnersOf(c)) = 1)
    /\ [](\A s \in Shards : \A t \in rangeDeletions[s] : ~t.pending => owner[t.chunk] # s)
    /\ [](\A s \in Shards : deleter[s].step # "idle" => owner[deleter[s].task.chunk] # s)
    /\ [][\A s \in Shards, c \in Chunks :
            Removed(s, c) # {} =>
                /\ deleter[s].step = "deleting" /\ deleter[s].task.chunk = c
                /\ owner[c] # s /\ owner'[c] # s]_vars
    /\ [][\A s \in Shards, m \in MigIds :
            Executes(s, m) =>
                /\ s \in {migs[m].donor, migs[m].recipient}
                /\ owner[migs[m].chunk] # s
                /\ migs[m].state = (IF s = migs[m].donor THEN "Done" ELSE "Aborted")]_vars
    /\ [](\A m \in MigIds : migs[m].state # "None" => Cardinality(ExecutedOf(m)) <= 1)

\* C29 as stated: the above, and of every migration exactly one of the two
\* range deletion documents eventually executes.
C29_ExactlyOneTaskExecutes ==
    /\ OrphansOnly
    /\ \A m \in MigIds :
          (migs[m].state # "None") ~> (Cardinality(ExecutedOf(m)) = 1)

\* C29, amended: the above, and of every migration that ended with a range
\* deletion document left on its donor or its recipient, exactly one of the
\* two eventually executes; of a migration that was aborted before the
\* recipient had stored its document, none does.
C29_OwnershipAndCleanup ==
    /\ OrphansOnly
    /\ \A m \in MigIds :
          (migs[m].state \in Terminal
              /\ TasksOf(migs[m].donor, m) \cup TasksOf(migs[m].recipient, m) # {})
          ~> (Cardinality(ExecutedOf(m)) = 1)
    /\ [][\A m \in MigIds :
            (Ends(m, "Aborted") /\ TasksOf(migs[m].recipient, m) = {}) =>
                /\ TasksAfter(migs[m].donor, m) = {}
                /\ TasksAfter(migs[m].recipient, m) = {}]_vars
    /\ [](\A m \in MigIds :
            (migs[m].state \in Terminal
                /\ TasksOf(migs[m].donor, m) \cup TasksOf(migs[m].recipient, m) = {}
                /\ ExecutedOf(m) = {})
            => [](ExecutedOf(m) = {}))

\* C29 witness: a chunk has moved to the other shard and its migration's
\* range deletion document has executed on the donor and is gone, the
\* recipient's never executed; another migration was aborted, and the range
\* deleter is deleting on its recipient, which does not own the chunk.
C29_Witness ==
    \E m1, m2 \in MigIds :
        /\ migs[m1].state = "Done"
        /\ ExecutedOf(m1) = {migs[m1].donor}
        /\ TasksOf(migs[m1].donor, m1) = {}
        /\ owner[migs[m1].chunk] = migs[m1].recipient
        /\ migs[m2].state = "Aborted"
        /\ ExecutedOf(m2) = {migs[m2].recipient}
        /\ deleter[migs[m2].recipient].step = "deleting"
        /\ deleter[migs[m2].recipient].task.mig = m2

====
